---- MODULE Spec2Model ----
(***************************************************************************)
(* A model of the vison2md server (server/main.py, server/mcp_http_server.py):*)
(*   - clean_output_text, the output sanitizer, as operators over texts;   *)
(*   - process_pdf_with_progress, the PDF batch pipeline, as a process;      *)
(*   - the backend selection of the /api/process and MCP routes;            *)
(*   - save_configs / load_saved_configs on the configuration file, and    *)
(*     load_history / save_history on the history log;                     *)
(*   - run_mlx_vlm_generate and run_api_generate, the backend adapters.     *)
(*                                                                         *)
(* A text is a sequence of lexical tokens.  A token stands for the literal  *)
(* substring the code tests for; tokens whose literal TLA+ strings cannot   *)
(* hold are named:                                                         *)
(*   NL            the newline character                                   *)
(*   SP            a blank (any whitespace that is not a newline)          *)
(*   TEXT          a run of ordinary characters                            *)
(*   FENCE_MD      three backquotes followed by "markdown"                 *)
(*   FENCE         three backquotes                                        *)
(*   DI            the character U+7B2C (ordinal prefix, "page No.")       *)
(*   YE_FOLLOWS    U+9875 U+7684 U+5185 U+5BB9 U+5982 U+4E0B U+FF1A          *)
(*                 ("the content of the page is as follows:")              *)
(*   ECHO_PHRASE   any phrase of the instruction-echo list (main.py:327)   *)
(*   TMP_PATH      any of "/var/folders/", "/tmp/", "pdf_pages_"           *)
(***************************************************************************)
EXTENDS Integers, Sequences, FiniteSets, TLC

VARIABLES
    \* ---- sanitizer harness ----
    raw,            \* the raw inference text handed to clean_output_text
    cleaned1,       \* clean_output_text(raw)
    cleaned2,       \* clean_output_text(clean_output_text(raw))
    cpc,            \* "raw" | "once" | "twice"
    \* ---- process_pdf_with_progress ----
    pymupdf_available,  \* PYMUPDF_AVAILABLE
    total_pdf_pages,    \* len(doc)
    max_pages,          \* the max_pages argument
    backend,            \* the base_url, api_key, model_name arguments
    pc,                 \* the position of the job in the function
    doc,                \* "unopened" | "open" | "closed"
    tmp_dir,            \* "none" | "exists" | "removed"
    images,             \* the page images present in tmp_dir (page numbers)
    batches,            \* the planned batches, <<start, end>> each
    batch_idx,          \* index of the current batch (from 0)
    page_index,         \* index of the current page (from 0)
    batch_results,      \* the sections of the current batch
    all_results,        \* the sections of the finished batches
    artifact,           \* the markdown file OUTPUT_DIR/<safe_name>.md
    error,              \* the exception that left the function, or "none"
    calls,              \* the backend invocations made so far
    \* ---- backend selection of the routes ----
    route,              \* "process" (/api/process) | "mcp" (an MCP tool)
    form,               \* the base_url, api_key, model_name form fields
    model_id,           \* the model_id of the MCP request, "" when not given
    saved_models,       \* the "models" collection of the configuration store
    selected_model,     \* what get_model_and_prompt_by_id returned
    job_args,           \* the arguments handed to the pipeline
    invoked,            \* the backend the job called: "none", "local", "remote"
    job_error,          \* the error the request failed with, or "none"
    bpc,                \* the position of the request
    \* ---- the configuration store ----
    config_file,        \* CONFIG_FILE: what a reader of the file finds
    history_file,       \* HISTORY_FILE: what a reader of the file finds
    proc,               \* the requests in progress, one per server process
    written,            \* the collections stored at first or handed to save_configs
    \* ---- the backend adapters ----
    adapter,            \* "local" (run_mlx_vlm_generate) | "remote" (run_api_generate)
    completed,          \* what the model process does when it is started
    response,           \* what the image file and the HTTP endpoint answer
    ret,                \* how the adapter call ended: a return or a raise
    launches,           \* the processes started, the HTTP requests sent
    apc,                \* "ready" | "called"
    \* ---- an upload request (/api/process, /api/process_stream) ----
    files,              \* the uploaded files, by name, in upload order
    batch_size,         \* the form field batch_size
    merge_output,       \* the form field merge_output
    rpc,                \* where the handler stands
    cursor,             \* the position of the current file in the handler's order
    upload_dir,         \* UPLOAD_DIR: the files it holds
    outputs,            \* OUTPUT_DIR and around: the files written, with their text
    results,            \* the list results of the handler
    events,             \* the events sent on the stream
    base_name,          \* the base name save_markdown was last called with
    out_path            \* the path save_markdown last wrote to

cleanVars == <<raw, cleaned1, cleaned2, cpc>>

pdfVars == <<pymupdf_available, total_pdf_pages, max_pages, backend, pc, doc,
             tmp_dir, images, batches, batch_idx, page_index, batch_results,
             all_results, artifact, error, calls>>

selVars == <<route, form, model_id, saved_models, selected_model, job_args,
             invoked, job_error, bpc>>

cfgVars == <<config_file, history_file, proc, written>>

adVars == <<adapter, completed, response, ret, launches, apc>>

reqVars == <<files, batch_size, merge_output, rpc, cursor, upload_dir,
             outputs, results, events, base_name, out_path>>

vars == <<cleanVars, pdfVars, selVars, cfgVars, adVars, reqVars>>

-----------------------------------------------------------------------------
(* Bounds *)

MaxLen == 4         \* longest raw text, in tokens
MaxPages == 4       \* most pages of a PDF
MaxBatch == 3       \* largest max_pages argument
MaxBlank == 7       \* longest raw text of words, spaces and line ends
MaxName == 3        \* longest base name, in characters
MaxFiles == 3       \* most files of an upload request

-----------------------------------------------------------------------------
(* Texts *)

NL == "NL"
SP == "SP"
TEXT == "TEXT"
THINK_OPEN == "<think>"
THINK_CLOSE == "</think>"
PROMPT == "Prompt:"
EQ_SEP == "=========="
DASHES == "---"
FENCE_MD == "FENCE_MD"
FENCE == "FENCE"
DI == "DI"
YE_FOLLOWS == "YE_FOLLOWS"
ECHO_PHRASE == "ECHO_PHRASE"
TMP_PATH == "TMP_PATH"
PNG == ".png"
FILES == "Files:"

Whitespace == {NL, SP}

\* The prefixes tested with L.startswith(...) at main.py:312-321.
ScaffoldPrefixes ==
    {PROMPT, "Generation:", "Peak memory:", "You are a helpful assistant",
     "<|im_start|>", "<|im_end|>", "<|vision_start|>", "<|vision_end|>",
     "<|image_pad|>", FILES}

Has(s, t) == \E i \in 1..Len(s) : s[i] = t

\* The first index >= from at which s holds t, or 0.
RECURSIVE IndexFrom(_, _, _)
IndexFrom(s, t, from) ==
    IF from > Len(s) THEN 0
    ELSE IF s[from] = t THEN from
    ELSE IndexFrom(s, t, from + 1)

Tail_(s, i) == SubSeq(s, i, Len(s))     \* s[i..]

\* str.strip(): leading and trailing whitespace removed.
RECURSIVE LStrip(_)
LStrip(s) ==
    IF s # <<>> /\ Head(s) \in Whitespace THEN LStrip(Tail(s)) ELSE s

RECURSIVE RStrip(_)
RStrip(s) ==
    IF s # <<>> /\ s[Len(s)] \in Whitespace
    THEN RStrip(SubSeq(s, 1, Len(s) - 1)) ELSE s

Strip(s) == LStrip(RStrip(s))

\* re.sub(r'<think>.*?</think>', '', raw, DOTALL|IGNORECASE): every
\* non-overlapping leftmost match, the shortest from its start marker.
RECURSIVE RemoveThinkBlocks(_)
RemoveThinkBlocks(s) ==
    LET i == IndexFrom(s, THINK_OPEN, 1) IN
    IF i = 0 THEN s
    ELSE LET j == IndexFrom(s, THINK_CLOSE, i + 1) IN
         IF j = 0 THEN s
         ELSE SubSeq(s, 1, i - 1) \o RemoveThinkBlocks(Tail_(s, j + 1))

\* A sanitizer that forgets the unterminated block.
RemoveOpenThinkKept(s) == s

\* re.sub(r'<think>.*$', '', text, DOTALL|IGNORECASE): from the first start
\* marker to the end of the text.
RemoveOpenThink(s) ==
    LET i == IndexFrom(s, THINK_OPEN, 1) IN
    IF i = 0 THEN s ELSE SubSeq(s, 1, i - 1)

\* str.splitlines(): a trailing newline opens no further line.
RECURSIVE SplitLines(_)
SplitLines(s) ==
    IF s = <<>> THEN <<>>
    ELSE LET i == IndexFrom(s, NL, 1) IN
         IF i = 0 THEN <<s>>
         ELSE <<SubSeq(s, 1, i - 1)>> \o SplitLines(Tail_(s, i + 1))

\* "\n".join(lines)
RECURSIVE JoinLines(_)
JoinLines(ls) ==
    IF ls = <<>> THEN <<>>
    ELSE IF Len(ls) = 1 THEN ls[1]
    ELSE ls[1] \o <<NL>> \o JoinLines(Tail(ls))

\* The loop body of main.py:302-348 for line i: TRUE when the line is kept.
KeepLine(lines, i) ==
    LET L == Strip(lines[i]) IN
    IF L = <<>> THEN TRUE
    ELSE IF \/ L = <<EQ_SEP>>
            \/ Head(L) \in ScaffoldPrefixes
            \/ Has(L, ECHO_PHRASE)
            \/ (Has(L, DI) /\ Has(L, YE_FOLLOWS))
         THEN FALSE
    ELSE IF Has(L, ECHO_PHRASE) THEN FALSE
    ELSE IF Head(L) \in {FENCE_MD, FENCE}
         THEN ~(i > 1 /\ Has(lines[i - 1], DI) /\ Has(lines[i - 1], YE_FOLLOWS))
    ELSE IF \/ Has(L, TMP_PATH)
            \/ (Has(L, PNG) /\ Has(L, FILES))
         THEN FALSE
    ELSE TRUE

RECURSIVE FilterFrom(_, _)
FilterFrom(lines, i) ==
    IF i > Len(lines) THEN <<>>
    ELSE (IF KeepLine(lines, i) THEN <<lines[i]>> ELSE <<>>)
         \o FilterFrom(lines, i + 1)

FilterLines(lines) == FilterFrom(lines, 1)

\* The length of the run of newlines that starts at s[i].
RECURSIVE NewlineRun(_, _)
NewlineRun(s, i) ==
    IF i > Len(s) \/ s[i] # NL THEN 0 ELSE 1 + NewlineRun(s, i + 1)

\* re.sub(r"\n{3,}", "\n\n", text)
RECURSIVE CollapseNewlines(_)
CollapseNewlines(s) ==
    IF s = <<>> THEN <<>>
    ELSE LET n == NewlineRun(s, 1) IN
         IF n >= 3 THEN <<NL, NL>> \o CollapseNewlines(Tail_(s, n + 1))
         ELSE IF n >= 1 THEN SubSeq(s, 1, n) \o CollapseNewlines(Tail_(s, n + 1))
         ELSE <<Head(s)>> \o CollapseNewlines(Tail(s))

\* re.sub(r'^.*?```markdown\s*', '', text, DOTALL): the text up to and
\* including the first fence marker, and the whitespace after it.
StripLeadingFence(s) ==
    LET i == IndexFrom(s, FENCE_MD, 1) IN
    IF i = 0 THEN s ELSE LStrip(Tail_(s, i + 1))

\* re.sub(r'^.*?DI.*?YE_FOLLOWS\s*', '', text, DOTALL)
StripLeadingPreamble(s) ==
    LET i == IndexFrom(s, DI, 1) IN
    IF i = 0 THEN s
    ELSE LET j == IndexFrom(s, YE_FOLLOWS, i + 1) IN
         IF j = 0 THEN s ELSE LStrip(Tail_(s, j + 1))

\* main.py:293-352: the text after the line filter and the newline collapse,
\* before the two substitutions that end the function.
CollapsedText(t) ==
    LET text1 == RemoveOpenThink(RemoveThinkBlocks(t))
        kept  == FilterLines(SplitLines(text1))
    IN  Strip(CollapseNewlines(JoinLines(kept)))

clean_output_text(t) ==
    StripLeadingPreamble(StripLeadingFence(CollapsedText(t)))

-----------------------------------------------------------------------------
(* The sanitizer applied to a raw text, and applied again to its result *)

Alphabet == {THINK_OPEN, THINK_CLOSE, NL, SP, TEXT, PROMPT, EQ_SEP, DASHES,
             FENCE_MD, DI, YE_FOLLOWS}

RECURSIVE TextsOver(_, _)
TextsOver(A, n) ==
    IF n = 0 THEN {<<>>}
    ELSE LET shorter == TextsOver(A, n - 1) IN
         shorter \cup {Append(s, c) : s \in {u \in shorter : Len(u) = n - 1},
                                      c \in A}

Texts(n) == TextsOver(Alphabet, n)

\* Texts of words, spaces and line ends only.
BlankAlphabet == {NL, SP, TEXT}

\* The PDF job at rest: what the sanitizer harness leaves untouched.
PdfIdle ==
    /\ pymupdf_available = TRUE
    /\ total_pdf_pages = 0
    /\ max_pages = 1
    /\ backend = [base_url |-> "", api_key |-> "", model_name |-> ""]
    /\ pc = "idle"
    /\ doc = "unopened"
    /\ tmp_dir = "none"
    /\ images = {}
    /\ batches = <<>>
    /\ batch_idx = 0
    /\ page_index = 0
    /\ batch_results = <<>>
    /\ all_results = <<>>
    /\ artifact = [state |-> "absent", toc |-> <<>>, body |-> <<>>]
    /\ error = "none"
    /\ calls = <<>>

NoModel == [id |-> "", model_type |-> "", base_url |-> "", api_key |-> "",
            model_name |-> "", model_path |-> ""]

\* No request in the routes: what the other processes leave untouched.
SelIdle ==
    /\ route = "none"
    /\ form = [base_url |-> "", api_key |-> "", model_name |-> ""]
    /\ model_id = ""
    /\ saved_models = <<>>
    /\ selected_model = NoModel
    /\ job_args = [model_path |-> "", base_url |-> "", api_key |-> "",
                   model_name |-> ""]
    /\ invoked = "none"
    /\ job_error = "none"
    /\ bpc = "idle"

\* The collection load_saved_configs falls back to (main.py:194, 196).
DefaultConfigs == [models |-> <<>>, prompts |-> <<>>]

\* The configuration store with no request at work on it.
CfgIdle ==
    /\ config_file = [part |-> "absent", data |-> DefaultConfigs]
    /\ history_file = [part |-> "absent", data |-> <<>>]
    /\ proc = <<>>
    /\ written = {}

\* A model process that is not asked, an endpoint that is not asked.
NoProcess == [how |-> "none", elapsed |-> 0, returncode |-> 0,
              stdout |-> <<>>, stderr |-> <<>>]
NoResponse == [image |-> "none", transport |-> "none", status |-> 0,
               body |-> [json |-> "none", has_choices |-> FALSE,
                         choices |-> <<>>]]
NoResult == [kind |-> "none", exc |-> "none", detail |-> "none",
             value |-> <<>>]

\* No adapter call: what the other processes leave untouched.
AdIdle ==
    /\ adapter = "none"
    /\ completed = NoProcess
    /\ response = NoResponse
    /\ ret = NoResult
    /\ launches = 0
    /\ apc = "idle"

\* No upload request: what the other processes leave untouched.
ReqIdle ==
    /\ files = <<>>
    /\ batch_size = 1
    /\ merge_output = FALSE
    /\ rpc = "idle"
    /\ cursor = 0
    /\ upload_dir = {}
    /\ outputs = {}
    /\ results = <<>>
    /\ events = <<>>
    /\ base_name = <<>>
    /\ out_path = <<>>

InitClean ==
    /\ AdIdle
    /\ ReqIdle
    /\ raw \in Texts(MaxLen)
    /\ cleaned1 = <<>>
    /\ cleaned2 = <<>>
    /\ cpc = "raw"
    /\ PdfIdle
    /\ SelIdle
    /\ CfgIdle

Sanitize ==
    /\ cpc = "raw"
    /\ cleaned1' = clean_output_text(raw)
    /\ cpc' = "once"
    /\ UNCHANGED <<raw, cleaned2, pdfVars, selVars, cfgVars, adVars, reqVars>>

Resanitize ==
    /\ cpc = "once"
    /\ cleaned2' = clean_output_text(cleaned1)
    /\ cpc' = "twice"
    /\ UNCHANGED <<raw, cleaned1, pdfVars, selVars, cfgVars, adVars, reqVars>>

NextClean == Sanitize \/ Resanitize

SpecClean == InitClean /\ [][NextClean]_vars

-----------------------------------------------------------------------------
(* Properties of the sanitizer (SpecClean) *)

Count(s, t) == Cardinality({i \in 1..Len(s) : s[i] = t})

\* Position i of s lies inside a reasoning block: a start marker stands before
\* it with no end marker in between (the block is closed at or after i, or
\* never).
InsideThink(s, i) ==
    \E j \in 1..(i - 1) :
        /\ s[j] = THINK_OPEN
        /\ \A k \in (j + 1)..(i - 1) : s[k] # THINK_CLOSE

OutsideCount(s, t) ==
    Cardinality({i \in 1..Len(s) : s[i] = t /\ ~InsideThink(s, i)})

\* C5: the sanitizer is idempotent: sanitizing an already sanitized text
\* gives the same text.
C5_Idempotent == cpc = "twice" => cleaned2 = cleaned1

\* C6: the sanitized text holds no reasoning start marker and nothing that
\* stood inside a reasoning block, closed or unterminated: every token of
\* the output is accounted for by an occurrence outside the blocks of the
\* input; "<think>internal</think>Hello" gives "Hello" and "<think>partial"
\* gives the empty text.
C6_NoReasoning ==
    cpc # "raw" =>
        /\ ~Has(cleaned1, THINK_OPEN)
        /\ \A t \in Alphabet \ Whitespace :
               Count(cleaned1, t) <= OutsideCount(raw, t)
        /\ raw = <<THINK_OPEN, TEXT, THINK_CLOSE, TEXT>> => cleaned1 = <<TEXT>>
        /\ raw = <<THINK_OPEN, TEXT>> => cleaned1 = <<>>

C6_Witness ==
    /\ cpc = "once"
    /\ raw = <<TEXT, THINK_OPEN, TEXT, THINK_CLOSE>>
    /\ cleaned1 = <<TEXT>>

\* C7: no line of the sanitized text begins with "Prompt:" and no line of it
\* is a separator line made of dashes.
C7_NoPromptNoSeparator ==
    cpc # "raw" =>
        \A i \in 1..Len(SplitLines(cleaned1)) :
            LET line == SplitLines(cleaned1)[i] IN
            /\ ~(line # <<>> /\ Head(line) = PROMPT)
            /\ Strip(line) # <<DASHES>>

\* The part of C7 about "Prompt:" alone.
C7_NoPromptLine ==
    cpc # "raw" =>
        \A i \in 1..Len(SplitLines(cleaned1)) :
            LET line == SplitLines(cleaned1)[i] IN
            ~(line # <<>> /\ Head(line) = PROMPT)

-----------------------------------------------------------------------------
(* The sanitizer on texts of words, spaces and line ends (SpecBlank) *)

InitBlank ==
    /\ AdIdle
    /\ ReqIdle
    /\ raw \in TextsOver(BlankAlphabet, MaxBlank)
    /\ cleaned1 = <<>>
    /\ cleaned2 = <<>>
    /\ cpc = "raw"
    /\ PdfIdle
    /\ SelIdle
    /\ CfgIdle

SpecBlank == InitBlank /\ [][NextClean]_vars

\* A blank line: empty, or whitespace only.
BlankLine(line) == Strip(line) = <<>>

\* The lines of a text, split at each line end.
RECURSIVE LinesOf(_)
LinesOf(s) ==
    LET i == IndexFrom(s, NL, 1) IN
    IF i = 0 THEN <<s>>
    ELSE <<SubSeq(s, 1, i - 1)>> \o LinesOf(Tail_(s, i + 1))

\* C22: the sanitized text never holds three or more consecutive blank
\* lines, a blank line being an empty or whitespace-only one.
C22_NoThreeBlankLines ==
    cpc # "raw" =>
        LET lines == LinesOf(cleaned1) IN
        \A i \in 1..(Len(lines) - 2) :
            ~(BlankLine(lines[i]) /\ BlankLine(lines[i + 1])
                                  /\ BlankLine(lines[i + 2]))

\* The same for empty lines alone: what the substitution of main.py:352
\* does establish.
C22_NoThreeEmptyLines ==
    cpc # "raw" =>
        LET lines == LinesOf(cleaned1) IN
        \A i \in 1..(Len(lines) - 2) :
            ~(lines[i] = <<>> /\ lines[i + 1] = <<>> /\ lines[i + 2] = <<>>)

\* C23: the last step of the sanitizer removes a fence marker or a page
\* preamble only at the very start of the cleaned text: a text that begins
\* with ordinary content is kept whole, also when a fence marker or the
\* preamble phrase stands later in it.
C23_OnlyLeadingPrefixCut ==
    cpc # "raw" =>
        LET text == CollapsedText(raw) IN
        (text # <<>> /\ Head(text) = TEXT) => cleaned1 = text

-----------------------------------------------------------------------------
(* process_pdf_with_progress (main.py:388-480) *)

\* The sanitizer harness at rest: what the PDF job leaves untouched.
CleanIdle ==
    /\ raw = <<>>
    /\ cleaned1 = <<>>
    /\ cleaned2 = <<>>
    /\ cpc = "idle"

Min(a, b) == IF a <= b THEN a ELSE b

\* The backend arguments of a job: None or "" for a missing one.
BackendArgs ==
    {[base_url |-> "", api_key |-> "", model_name |-> ""],
     [base_url |-> "url", api_key |-> "key", model_name |-> "model"],
     [base_url |-> "url", api_key |-> "", model_name |-> "model"]}

\* main.py:437 (and 371, 510): the remote variant only when all three are set.
SelectBackend(b) ==
    IF b.base_url # "" /\ b.api_key # "" /\ b.model_name # ""
    THEN "remote" ELSE "local"

\* What the backends can answer for a page (the raw text of a success).
RawOutputs == {<<TEXT>>, <<THINK_OPEN, TEXT, THINK_CLOSE, FENCE_MD, NL, TEXT>>}

\* The exceptions a backend call raises (main.py:115-122 and 167-185);
\* "failed" stands for every one that is neither the timeout nor the
\* out-of-memory error, the uncaught OSError of a process that cannot be
\* started included: line 450 treats them alike.
BackendErrors(kind) ==
    IF kind = "local" THEN {"timeout", "out_of_memory", "failed"}
    ELSE {"failed"}

\* A remote answer whose content is null is returned as it is
\* (main.py:177-178), and clean_output_text raises TypeError on it.
SanitizeErrors(kind) == IF kind = "remote" THEN {"not_a_text"} ELSE {}

RenderErrors == {"load_page_failed", "get_pixmap_failed", "pix_save_failed"}

\* A plan whose last batch is not cut at the end of the document.
BatchesUncapped(n, b) ==
    IF n <= b THEN <<<<0, n>>>>
    ELSE IF b < 0 THEN <<>>
    ELSE [i \in 1..((n + b - 1) \div b) |-> <<(i - 1) * b, (i - 1) * b + b>>]

\* A plan that drops the last, shorter batch.
BatchesFloor(n, b) ==
    IF n <= b THEN <<<<0, n>>>>
    ELSE IF b < 0 THEN <<>>
    ELSE [i \in 1..(n \div b) |-> <<(i - 1) * b, (i - 1) * b + b>>]

\* main.py:401-409, for max_pages # 0: range(0, n, b) is empty for b < 0.
Batches(n, b) ==
    IF n <= b THEN <<<<0, n>>>>
    ELSE IF b < 0 THEN <<>>
    ELSE [i \in 1..((n + b - 1) \div b) |->
            <<(i - 1) * b, Min((i - 1) * b + b, n)>>]

\* The entries of all_results: a batch heading, a page section (heading,
\* sanitized body, separator), an error section, a batch separator.
BatchTitle(i, n, first, last) ==
    [kind |-> "batch_title", page |-> 0, body |-> <<i, n, first, last>>]
PageSection(k, text) == [kind |-> "page", page |-> k, body |-> text]
ErrorSection(k, msg) == [kind |-> "error", page |-> k, body |-> <<"ERROR_MARK", msg>>]
BatchSeparator == [kind |-> "batch_sep", page |-> 0, body |-> <<>>]

InitPdf ==
    /\ AdIdle
    /\ ReqIdle
    /\ CleanIdle
    /\ SelIdle
    /\ CfgIdle
    /\ pymupdf_available \in BOOLEAN
    /\ total_pdf_pages \in 0..MaxPages
    /\ max_pages \in (-1)..MaxBatch
    /\ backend \in BackendArgs
    /\ pc = "start"
    /\ doc = "unopened"
    /\ tmp_dir = "none"
    /\ images = {}
    /\ batches = <<>>
    /\ batch_idx = 0
    /\ page_index = 0
    /\ batch_results = <<>>
    /\ all_results = <<>>
    /\ artifact = [state |-> "absent", toc |-> <<>>, body |-> <<>>]
    /\ error = "none"
    /\ calls = <<>>

\* main.py:389-390
CheckLibrary ==
    /\ pc = "start"
    /\ IF pymupdf_available
       THEN pc' = "open" /\ UNCHANGED error
       ELSE pc' = "raised" /\ error' = "pymupdf_missing"
    /\ UNCHANGED <<cleanVars, adVars, reqVars, selVars, cfgVars, pymupdf_available, total_pdf_pages, max_pages,
                   backend, doc, tmp_dir, images, batches, batch_idx,
                   page_index, batch_results, all_results, artifact, calls>>

\* main.py:392: fitz.open raises on a file that is no PDF.
OpenDocument ==
    /\ pc = "open"
    /\ \E opens \in BOOLEAN :
        IF opens
        THEN doc' = "open" /\ pc' = "mkdtemp" /\ UNCHANGED error
        ELSE doc' = doc /\ pc' = "raised" /\ error' = "open_failed"
    /\ UNCHANGED <<cleanVars, adVars, reqVars, selVars, cfgVars, pymupdf_available, total_pdf_pages, max_pages,
                   backend, tmp_dir, images, batches, batch_idx, page_index,
                   batch_results, all_results, artifact, calls>>

\* main.py:393-395
MakeTmpDir ==
    /\ pc = "mkdtemp"
    /\ tmp_dir' = "exists"
    /\ pc' = "plan"
    /\ UNCHANGED <<cleanVars, adVars, reqVars, selVars, cfgVars, pymupdf_available, total_pdf_pages, max_pages,
                   backend, doc, images, batches, batch_idx, page_index,
                   batch_results, all_results, artifact, error, calls>>

\* main.py:398-409: range() raises ValueError on a step of zero.
PlanBatches ==
    /\ pc = "plan"
    /\ all_results' = <<>>
    /\ IF total_pdf_pages > max_pages /\ max_pages = 0
       THEN /\ pc' = "finally"
            /\ error' = "range_step_zero"
            /\ UNCHANGED <<batches, batch_idx>>
       ELSE /\ batches' = Batches(total_pdf_pages, max_pages)
            /\ batch_idx' = 0
            /\ pc' = "batch"
            /\ UNCHANGED error
    /\ UNCHANGED <<cleanVars, adVars, reqVars, selVars, cfgVars, pymupdf_available, total_pdf_pages, max_pages,
                   backend, doc, tmp_dir, images, page_index, batch_results,
                   artifact, calls>>

start_page == batches[batch_idx + 1][1]
end_page == batches[batch_idx + 1][2]

\* main.py:411-418: the head of the batch loop, up to the head of the page loop.
StartBatch ==
    /\ pc = "batch"
    /\ IF batch_idx < Len(batches)
       THEN /\ batch_results' =
                  IF Len(batches) > 1
                  THEN <<BatchTitle(batch_idx + 1, Len(batches),
                                    start_page + 1, end_page)>>
                  ELSE <<>>
            /\ page_index' = start_page
            /\ pc' = IF start_page < end_page THEN "rasterize" ELSE "batch_end"
       ELSE /\ pc' = "assemble"
            /\ UNCHANGED <<batch_results, page_index>>
    /\ UNCHANGED <<cleanVars, adVars, reqVars, selVars, cfgVars, pymupdf_available, total_pdf_pages, max_pages,
                   backend, doc, tmp_dir, images, batches, batch_idx,
                   all_results, artifact, error, calls>>

\* A page loop that renders every page of the batch before it infers the
\* first.
RasterizeWholeBatch ==
    /\ pc = "rasterize"
    /\ images' = images \cup ((page_index + 1)..end_page)
    /\ pc' = "infer"
    /\ UNCHANGED <<cleanVars, adVars, reqVars, selVars, cfgVars, pymupdf_available, total_pdf_pages, max_pages,
                   backend, doc, tmp_dir, batches, batch_idx, page_index,
                   batch_results, all_results, artifact, error, calls>>

\* main.py:419-434: load the page, render it, save the image.  None of this
\* stands inside the page's try block: an exception leaves the function
\* through its finally clause.
Rasterize ==
    /\ pc = "rasterize"
    /\ \/ /\ images' = images \cup {page_index + 1}
          /\ pc' = "infer"
          /\ UNCHANGED error
       \/ \E e \in RenderErrors :
          /\ error' = e
          /\ pc' = "finally"
          /\ images' \in IF e = "pix_save_failed"
                         THEN {images, images \cup {page_index + 1}}
                         ELSE {images}
    /\ UNCHANGED <<cleanVars, adVars, reqVars, selVars, cfgVars, pymupdf_available, total_pdf_pages, max_pages,
                   backend, doc, tmp_dir, batches, batch_idx, page_index,
                   batch_results, all_results, artifact, calls>>

\* The page loop's step to the next page, or out of the loop.
AfterPage == IF page_index + 1 < end_page THEN "rasterize" ELSE "batch_end"

\* A page loop that leaves the image of a recognized page to the final
\* cleanup.
InferPageKeepingImage ==
    /\ pc = "infer"
    /\ \E text \in RawOutputs :
        /\ calls' = Append(calls, [page |-> page_index + 1,
                                   kind |-> SelectBackend(backend),
                                   result |-> "ok", raw |-> text])
        /\ batch_results' = Append(batch_results,
              PageSection(page_index + 1, clean_output_text(text)))
    /\ page_index' = page_index + 1
    /\ pc' = AfterPage
    /\ UNCHANGED <<cleanVars, adVars, reqVars, selVars, cfgVars, pymupdf_available, total_pdf_pages, max_pages,
                   backend, doc, tmp_dir, images, batches, batch_idx, all_results,
                   artifact, error>>

\* main.py:436-448: the backend answers, the answer is sanitized and recorded,
\* the page image is deleted.
InferPage ==
    /\ pc = "infer"
    /\ \E text \in RawOutputs :
        /\ calls' = Append(calls, [page |-> page_index + 1,
                                   kind |-> SelectBackend(backend),
                                   result |-> "ok", raw |-> text])
        /\ batch_results' = Append(batch_results,
              PageSection(page_index + 1, clean_output_text(text)))
    /\ images' = images \ {page_index + 1}
    /\ page_index' = page_index + 1
    /\ pc' = AfterPage
    /\ UNCHANGED <<cleanVars, adVars, reqVars, selVars, cfgVars, pymupdf_available, total_pdf_pages, max_pages,
                   backend, doc, tmp_dir, batches, batch_idx, all_results,
                   artifact, error>>

\* A page loop that gives up at the first failed page.
InferPageFailsAborting ==
    /\ pc = "infer"
    /\ \E e \in BackendErrors(SelectBackend(backend))
                \cup SanitizeErrors(SelectBackend(backend)) :
        /\ calls' = Append(calls, [page |-> page_index + 1,
                                   kind |-> SelectBackend(backend),
                                   result |-> e, raw |-> <<>>])
        /\ error' = e
    /\ pc' = "finally"
    /\ UNCHANGED <<cleanVars, adVars, reqVars, selVars, cfgVars, pymupdf_available, total_pdf_pages, max_pages,
                   backend, doc, tmp_dir, images, batches, batch_idx,
                   page_index, batch_results, all_results, artifact>>

\* A page loop that calls the backend a second time when the first call of
\* a page failed.
InferPageFailsRetrying ==
    /\ pc = "infer"
    /\ \E e \in BackendErrors(SelectBackend(backend))
                \cup SanitizeErrors(SelectBackend(backend)) :
        /\ calls' = Append(calls, [page |-> page_index + 1,
                                   kind |-> SelectBackend(backend),
                                   result |-> e, raw |-> <<>>])
        /\ IF calls # <<>> /\ calls[Len(calls)].page = page_index + 1
           THEN /\ batch_results' = Append(batch_results,
                                           ErrorSection(page_index + 1, e))
                /\ images' = images \ {page_index + 1}
                /\ page_index' = page_index + 1
                /\ pc' = AfterPage
           ELSE UNCHANGED <<batch_results, images, page_index, pc>>
    /\ UNCHANGED <<cleanVars, adVars, reqVars, selVars, cfgVars, pymupdf_available, total_pdf_pages, max_pages,
                   backend, doc, tmp_dir, batches, batch_idx, all_results,
                   artifact, error>>

\* main.py:436-444 raising, then 450-454: the exception of the backend or of
\* the sanitizer is caught, an error section is recorded, the image deleted.
InferPageFails ==
    /\ pc = "infer"
    /\ \E e \in BackendErrors(SelectBackend(backend))
                \cup SanitizeErrors(SelectBackend(backend)) :
        /\ calls' = Append(calls, [page |-> page_index + 1,
                                   kind |-> SelectBackend(backend),
                                   result |-> e, raw |-> <<>>])
        /\ batch_results' = Append(batch_results,
                                   ErrorSection(page_index + 1, e))
    /\ images' = images \ {page_index + 1}
    /\ page_index' = page_index + 1
    /\ pc' = AfterPage
    /\ UNCHANGED <<cleanVars, adVars, reqVars, selVars, cfgVars, pymupdf_available, total_pdf_pages, max_pages,
                   backend, doc, tmp_dir, batches, batch_idx, all_results,
                   artifact, error>>

\* A page handler that catches everything (a bare except): the interrupt is
\* recorded like a failed page and the job goes on.
CancelInferenceCaught ==
    /\ pc = "infer"
    /\ calls' = Append(calls, [page |-> page_index + 1,
                               kind |-> SelectBackend(backend),
                               result |-> "cancelled", raw |-> <<>>])
    /\ batch_results' = Append(batch_results,
                               ErrorSection(page_index + 1, "cancelled"))
    /\ images' = images \ {page_index + 1}
    /\ page_index' = page_index + 1
    /\ pc' = AfterPage
    /\ UNCHANGED <<cleanVars, adVars, reqVars, selVars, cfgVars, pymupdf_available, total_pdf_pages, max_pages,
                   backend, doc, tmp_dir, batches, batch_idx, all_results,
                   artifact, error>>

\* The job is interrupted while the backend call is in flight: what is raised
\* (KeyboardInterrupt, CancelledError) is no Exception, so line 450 does not
\* catch it.
CancelInference ==
    /\ pc = "infer"
    /\ calls' = Append(calls, [page |-> page_index + 1,
                               kind |-> SelectBackend(backend),
                               result |-> "cancelled", raw |-> <<>>])
    /\ error' = "cancelled"
    /\ pc' = "finally"
    /\ UNCHANGED <<cleanVars, adVars, reqVars, selVars, cfgVars, pymupdf_available, total_pdf_pages, max_pages,
                   backend, doc, tmp_dir, images, batches, batch_idx,
                   page_index, batch_results, all_results, artifact>>

\* A batch loop that saves what it has after every batch.
EndBatchSaving ==
    /\ pc = "batch_end"
    /\ all_results' = all_results \o batch_results
                      \o (IF batch_idx < Len(batches) - 1
                          THEN <<BatchSeparator>> ELSE <<>>)
    /\ artifact' = [state |-> "written", toc |-> <<>>, body |-> all_results']
    /\ batch_idx' = batch_idx + 1
    /\ pc' = "batch"
    /\ UNCHANGED <<cleanVars, adVars, reqVars, selVars, cfgVars, pymupdf_available, total_pdf_pages, max_pages,
                   backend, doc, tmp_dir, images, batches, page_index,
                   batch_results, error, calls>>

\* main.py:456-460
EndBatch ==
    /\ pc = "batch_end"
    /\ all_results' = all_results \o batch_results
                      \o (IF batch_idx < Len(batches) - 1
                          THEN <<BatchSeparator>> ELSE <<>>)
    /\ batch_idx' = batch_idx + 1
    /\ pc' = "batch"
    /\ UNCHANGED <<cleanVars, adVars, reqVars, selVars, cfgVars, pymupdf_available, total_pdf_pages, max_pages,
                   backend, doc, tmp_dir, images, batches, page_index,
                   batch_results, artifact, error, calls>>

\* main.py:462-475: the summary with one table-of-contents entry per page of
\* the PDF, then save_markdown (main.py:361-367).  write_text creates or
\* truncates the file before it writes: a failed save leaves the file as it
\* was (it could not be opened) or cut short.
AssembleAndSave ==
    /\ pc = "assemble"
    /\ LET merged_md == [state |-> "written",
                         toc |-> [i \in 1..total_pdf_pages |-> i],
                         body |-> all_results]
       IN  \/ /\ artifact' = merged_md
              /\ UNCHANGED error
           \/ /\ artifact' \in {artifact,
                                [state |-> "partial", toc |-> <<>>, body |-> <<>>]}
              /\ error' = "save_failed"
    /\ pc' = "finally"
    /\ UNCHANGED <<cleanVars, adVars, reqVars, selVars, cfgVars, pymupdf_available, total_pdf_pages, max_pages,
                   backend, doc, tmp_dir, images, batches, batch_idx,
                   page_index, batch_results, all_results, calls>>

\* A cleanup that runs on the normal return only.
CleanupOnSuccessOnly ==
    /\ pc = "finally"
    /\ doc' = "closed"
    /\ IF error = "none"
       THEN tmp_dir' = "removed" /\ images' = {}
       ELSE UNCHANGED <<tmp_dir, images>>
    /\ pc' = IF error = "none" THEN "returned" ELSE "raised"
    /\ UNCHANGED <<cleanVars, adVars, reqVars, selVars, cfgVars, pymupdf_available, total_pdf_pages, max_pages,
                   backend, batches, batch_idx, page_index, batch_results,
                   all_results, artifact, error, calls>>

\* main.py:477-480: the finally clause, then the return or the re-raise.
Cleanup ==
    /\ pc = "finally"
    /\ doc' = "closed"
    /\ tmp_dir' = "removed"
    /\ images' = {}
    /\ pc' = IF error = "none" THEN "returned" ELSE "raised"
    /\ UNCHANGED <<cleanVars, adVars, reqVars, selVars, cfgVars, pymupdf_available, total_pdf_pages, max_pages,
                   backend, batches, batch_idx, page_index, batch_results,
                   all_results, artifact, error, calls>>

Next ==
    \/ CheckLibrary
    \/ OpenDocument
    \/ MakeTmpDir
    \/ PlanBatches
    \/ StartBatch
    \/ Rasterize
    \/ InferPage
    \/ InferPageFails
    \/ CancelInference
    \/ EndBatch
    \/ AssembleAndSave
    \/ Cleanup

Init == InitPdf

Spec == Init /\ [][Next]_vars

-----------------------------------------------------------------------------
(* The backend selection of /api/process (main.py:483-567) and of the MCP   *)
(* tools document_ocr and analyze_image (mcp_http_server.py:112-295)        *)

PresetIds == {"m1", "m2"}

LocalPreset(i) == [id |-> i, model_type |-> "local", base_url |-> "",
                   api_key |-> "", model_name |-> "", model_path |-> "path"]
ApiPreset(i) == [id |-> i, model_type |-> "api", base_url |-> "url",
                 api_key |-> "key", model_name |-> "model", model_path |-> ""]

Presets == {LocalPreset(i) : i \in PresetIds} \cup {ApiPreset(i) : i \in PresetIds}

\* The stores: up to one preset per id, in any order.
SavedModelLists ==
    {<<>>} \cup {<<p>> : p \in Presets}
    \cup {pq \in {<<p, q>> : p \in Presets, q \in Presets} : pq[1].id # pq[2].id}

FormFields == [base_url : {"", "url"}, api_key : {"", "key"},
               model_name : {"", "model"}]

RECURSIVE FirstWhere(_, _, _)
FirstWhere(models, field, value) ==
    IF models = <<>> THEN NoModel
    ELSE IF Head(models)[field] = value THEN Head(models)
    ELSE FirstWhere(Tail(models), field, value)

\* mcp_http_server.py:112-138: the preset with the given id; without one, the
\* first preset of type api; without one, None.
get_model_and_prompt_by_id(models, mid) ==
    LET byId == IF mid # "" THEN FirstWhere(models, "id", mid) ELSE NoModel
    IN  IF byId # NoModel THEN byId
        ELSE FirstWhere(models, "model_type", "api")

InitBackend ==
    /\ AdIdle
    /\ ReqIdle
    /\ CleanIdle
    /\ PdfIdle
    /\ CfgIdle
    /\ route \in {"process", "mcp"}
    /\ form \in FormFields
    /\ model_id \in PresetIds \cup {"", "unknown"}
    /\ saved_models \in SavedModelLists
    /\ selected_model = NoModel
    /\ job_args = [model_path |-> "", base_url |-> "", api_key |-> "",
                   model_name |-> ""]
    /\ invoked = "none"
    /\ job_error = "none"
    /\ bpc = "request"

\* main.py:509-510 and 546-552 (606-613 for an image): use_api, and the
\* call of the pipeline with the three fields, or with None for each.
ProcessFiles ==
    /\ bpc = "request"
    /\ route = "process"
    /\ LET use_api == SelectBackend(form) = "remote" IN
       job_args' = [model_path |-> "form_model_path",
                    base_url |-> IF use_api THEN form.base_url ELSE "",
                    api_key |-> IF use_api THEN form.api_key ELSE "",
                    model_name |-> IF use_api THEN form.model_name ELSE ""]
    /\ bpc' = "job"
    /\ UNCHANGED <<cleanVars, adVars, reqVars, pdfVars, cfgVars, route, form, model_id, saved_models,
                   selected_model, invoked, job_error>>

\* mcp_http_server.py:175-179 (240-244)
ResolveModel ==
    /\ bpc = "request"
    /\ route = "mcp"
    /\ selected_model' = get_model_and_prompt_by_id(saved_models, model_id)
    /\ bpc' = "dispatch"
    /\ UNCHANGED <<cleanVars, adVars, reqVars, pdfVars, cfgVars, route, form, model_id, saved_models,
                   job_args, invoked, job_error>>

\* mcp_http_server.py:185-205 (258-276): an api preset is folded into the
\* model_path argument; base_url, api_key and model_name keep their default,
\* None.  Any other outcome runs the default local model.
DispatchTool ==
    /\ bpc = "dispatch"
    /\ job_args' = [model_path |-> IF selected_model # NoModel
                                      /\ selected_model.model_type = "api"
                                   THEN "[api]url&key&model"
                                   ELSE "DEFAULT_MODEL_PATH",
                    base_url |-> "", api_key |-> "", model_name |-> ""]
    /\ bpc' = "job"
    /\ UNCHANGED <<cleanVars, adVars, reqVars, pdfVars, cfgVars, route, form, model_id, saved_models,
                   selected_model, invoked, job_error>>

\* main.py:371-376 and 437-442: the job calls the backend its arguments select.
RunJob ==
    /\ bpc = "job"
    /\ invoked' = SelectBackend(job_args)
    /\ bpc' = "done"
    /\ UNCHANGED <<cleanVars, adVars, reqVars, pdfVars, cfgVars, route, form, model_id, saved_models,
                   selected_model, job_args, job_error>>

NextBackend == ProcessFiles \/ ResolveModel \/ DispatchTool \/ RunJob

SpecBackend == InitBackend /\ [][NextBackend]_vars

\* Remote inference is asked for, and one of its three fields is missing.
IncompleteRemote(f) ==
    /\ f.base_url # "" \/ f.api_key # "" \/ f.model_name # ""
    /\ SelectBackend(f) # "remote"

UnknownModelId ==
    /\ model_id # ""
    /\ \A i \in 1..Len(saved_models) : saved_models[i].id # model_id

\* C9: a misconfigured backend selector fails the job: remote inference asked
\* for with a missing endpoint URL, API key or model name, or a model_id that
\* matches no saved preset, ends in an error and no backend is run in place
\* of the one asked for.
C9_MisconfiguredBackendFails ==
    bpc = "done" =>
        /\ (route = "process" /\ IncompleteRemote(form)) =>
              (job_error # "none" /\ invoked = "none")
        /\ (route = "mcp" /\ UnknownModelId) =>
              (job_error # "none" /\ invoked = "none")


\* The caller's model_id names a saved preset of type api.
ResolvesToApiPreset ==
    /\ route = "mcp"
    /\ model_id # ""
    /\ FirstWhere(saved_models, "id", model_id) # NoModel
    /\ FirstWhere(saved_models, "id", model_id).model_type = "api"

\* C24: when the caller's model identifier resolves to a saved preset of type
\* api, the job's inference is done by the remote variant against that
\* preset's endpoint URL, key and model name; the local variant is not run.
C24_ApiPresetRunsRemote ==
    (ResolvesToApiPreset /\ bpc = "done") =>
        /\ invoked = "remote"
        /\ job_args.base_url = selected_model.base_url
        /\ job_args.api_key = selected_model.api_key
        /\ job_args.model_name = selected_model.model_name

-----------------------------------------------------------------------------
(* Properties of the PDF pipeline (Spec) *)

RECURSIVE SelectSeq_(_, _)
SelectSeq_(s, kinds) ==
    IF s = <<>> THEN <<>>
    ELSE (IF Head(s).kind \in kinds THEN <<Head(s)>> ELSE <<>>)
         \o SelectSeq_(Tail(s), kinds)

\* The page sections of a document body (content and error sections), in
\* the order they stand in it.
Sections(body) == SelectSeq_(body, {"page", "error"})

PageNumbers(body) == [i \in 1..Len(Sections(body)) |-> Sections(body)[i].page]

\* The sections recorded so far by the job: inside a batch, those of the
\* finished batches and of the current one.
Recorded ==
    IF pc \in {"rasterize", "infer", "batch_end"}
    THEN Sections(all_results \o batch_results)
    ELSE Sections(all_results)

\* The job was stopped inside a batch by something other than inference.
Aborted == error \in RenderErrors \cup {"cancelled"}

InferenceErrors ==
    {"timeout", "out_of_memory", "failed", "not_a_text"}

\* C1: for N >= 0 pages and a batch size B >= 1, the assembled document holds
\* exactly one page section for each page 1..N, in ascending order, whatever
\* B is and whichever pages failed in inference.
C1_EveryPageOnce ==
    (pc = "returned" /\ max_pages >= 1) =>
        /\ artifact.state = "written"
        /\ PageNumbers(artifact.body) = [i \in 1..total_pdf_pages |-> i]

C1_Witness ==
    /\ pc = "returned"
    /\ total_pdf_pages = 3
    /\ max_pages = 2
    /\ Len(batches) = 2
    /\ \E i \in 1..Len(artifact.body) : artifact.body[i].kind = "error"
    /\ PageNumbers(artifact.body) = <<1, 2, 3>>

\* C2: an exception raised while inferring or sanitizing page k is absorbed:
\* the page is recorded as an error section with the exception message, the
\* job goes on (no inference or sanitizer error ever leaves the function),
\* every other inferred page has its sanitized content, and the document
\* that is persisted holds all of them.
C2_PageFailureAbsorbed ==
    /\ error \notin InferenceErrors
    /\ \A c \in 1..Len(calls) :
         ~Aborted =>
           /\ c <= Len(Recorded)
           /\ Recorded[c] =
                IF calls[c].result = "ok"
                THEN PageSection(calls[c].page, clean_output_text(calls[c].raw))
                ELSE ErrorSection(calls[c].page, calls[c].result)
    /\ pc = "returned" =>
         /\ artifact.body = all_results
         /\ Len(Sections(artifact.body)) = Len(calls)

C2_Witness ==
    /\ pc = "returned"
    /\ Len(calls) = 3
    /\ calls[1].result = "ok"
    /\ calls[2].result = "timeout"
    /\ calls[3].result = "ok"
    /\ Sections(artifact.body)[2] = ErrorSection(2, "timeout")
    /\ Sections(artifact.body)[3].kind = "page"

\* C3: a failure to rasterize one page (load, render, save of the image)
\* does not abort the job: no render error ever leaves the function.
C3_RenderFailureAbsorbed == error \notin RenderErrors

\* C4: once the scratch directory exists, it and every page image in it are
\* removed on every exit of the function: return, page inference failure,
\* rasterization error, failed save, cancellation.
C4_ScratchRemoved ==
    (pc \in {"returned", "raised"} /\ tmp_dir # "none") =>
        (tmp_dir = "removed" /\ images = {})

C4_Witness ==
    /\ pc = "raised"
    /\ error = "cancelled"
    /\ Len(calls) = 2
    /\ calls[1].result = "failed"
    /\ tmp_dir = "removed"
    /\ images = {}

\* C8: the artifact is written only after every page of every batch has been
\* processed; when the function fails because the library is missing, the
\* document does not open, or an error escapes the page loop, no artifact
\* was created or modified.
EscapesBeforeSave ==
    {"pymupdf_missing", "open_failed", "range_step_zero", "cancelled"}
    \cup RenderErrors

C8_NoPartialArtifact ==
    /\ artifact.state # "absent" =>
         /\ pc \in {"finally", "returned", "raised"}
         /\ batch_idx = Len(batches)
         /\ error \in {"none", "save_failed"}
    /\ (pc = "raised" /\ error \in EscapesBeforeSave) =>
         artifact.state = "absent"

C8_Witness ==
    /\ pc = "raised"
    /\ error = "load_page_failed"
    /\ Len(calls) = 2
    /\ batch_idx = 1
    /\ artifact.state = "absent"

\* The sections of page k among those of a list of entries.
SectionsOf(body, k) == SelectSeq(Sections(body), LAMBDA x : x.page = k)

\* C15: when the job is interrupted while the backend call of page k is in
\* flight, that call is the last one (the remaining pages are skipped), the
\* function is left through its finally clause, no section of page k was
\* recorded and no artifact is written; a section in a written artifact is
\* always the whole section of a call that came back.
C15_CancelledPageOmitted ==
    /\ \A c \in 1..Len(calls) :
         calls[c].result = "cancelled" =>
           /\ c = Len(calls)
           /\ pc \in {"finally", "raised"}
           /\ error = "cancelled"
           /\ SectionsOf(all_results \o batch_results, calls[c].page) = <<>>
           /\ artifact.state = "absent"
    /\ artifact.state = "written" =>
         \A i \in 1..Len(Sections(artifact.body)) :
           /\ i <= Len(calls)
           /\ Sections(artifact.body)[i] =
                IF calls[i].result = "ok"
                THEN PageSection(calls[i].page, clean_output_text(calls[i].raw))
                ELSE ErrorSection(calls[i].page, calls[i].result)

C15_Witness ==
    /\ pc = "raised"
    /\ error = "cancelled"
    /\ total_pdf_pages = 3
    /\ Len(calls) = 2
    /\ calls[1].result = "ok"
    /\ calls[2].result = "cancelled"
    /\ Len(Sections(batch_results)) = 1
    /\ artifact.state = "absent"

\* C16: one page at a time, in ascending order: the only page image that
\* exists is that of the current page, the backend is called for ascending
\* pages, and when the rasterization or the inference of page k+1 begins,
\* the results of the pages 1..k are recorded (content or error section).
C16_OnePageAtATime ==
    /\ images \subseteq {page_index + 1}
    /\ \A i, j \in 1..Len(calls) : i < j => calls[i].page < calls[j].page
    /\ pc \in {"rasterize", "infer"} =>
         PageNumbers(Recorded) = [i \in 1..page_index |-> i]

C16_Witness ==
    /\ pc = "infer"
    /\ batch_idx = 1
    /\ page_index = 2
    /\ images = {3}
    /\ PageNumbers(Recorded) = <<1, 2>>
    /\ Recorded[2].kind = "error"

\* The number of backend calls made for page k.
CallsOf(k) == Cardinality({c \in 1..Len(calls) : calls[c].page = k})

\* C17: the backend is invoked exactly once for each page that was
\* rasterized, whether the call succeeds, fails or is interrupted, and never
\* for another page: once for each page behind the current one, once for the
\* current page when its call was interrupted, never otherwise.
C17_SingleAttemptPerPage ==
    \A k \in 1..(MaxPages + 1) :
        CallsOf(k) =
            IF k <= page_index THEN 1
            ELSE IF k = page_index + 1 /\ error = "cancelled" THEN 1
            ELSE 0

C17_Witness ==
    /\ pc = "returned"
    /\ Len(calls) = 3
    /\ calls[1].result = "failed"
    /\ calls[2].result = "out_of_memory"
    /\ calls[3].result = "ok"
    /\ \A k \in 1..3 : CallsOf(k) = 1

\* The sizes of the batches of a plan.
Sizes(bs) == [i \in 1..Len(bs) |-> bs[i][2] - bs[i][1]]

RECURSIVE Sum(_)
Sum(q) == IF q = <<>> THEN 0 ELSE Head(q) + Sum(Tail(q))

\* A plan for n pages in batches of b: contiguous ranges from 0 to n, one
\* batch when n <= b, otherwise batches of b pages and a last one of 1..b.
GoodPlan(bs, n, b) ==
    /\ Len(bs) >= 1
    /\ bs[1][1] = 0
    /\ bs[Len(bs)][2] = n
    /\ \A i \in 1..(Len(bs) - 1) : bs[i][2] = bs[i + 1][1]
    /\ Sum(Sizes(bs)) = n
    /\ n <= b => Len(bs) = 1
    /\ n > b =>
         /\ \A i \in 1..(Len(bs) - 1) : Sizes(bs)[i] = b
         /\ Sizes(bs)[Len(bs)] \in 1..b

\* C18: for N >= 0 pages and a batch size B >= 1 the planned batches are
\* contiguous, non-overlapping ranges from page 0 to page N whose sizes sum
\* to N: one batch when N <= B, otherwise batches of B pages and a last one
\* of 1..B pages; N = 25, B = 10 gives the sizes 10, 10, 5.
C18_BatchPlan ==
    /\ (max_pages >= 1 /\ pc \notin {"start", "open", "mkdtemp", "plan", "raised"}
          /\ error # "range_step_zero")
         => /\ batches = Batches(total_pdf_pages, max_pages)
            /\ GoodPlan(batches, total_pdf_pages, max_pages)
    /\ Sizes(Batches(25, 10)) = <<10, 10, 5>>
    /\ GoodPlan(Batches(25, 10), 25, 10)

C18_Witness ==
    /\ pc = "batch"
    /\ total_pdf_pages = 4
    /\ max_pages = 3
    /\ batches = <<<<0, 3>>, <<3, 4>>>>

\* C25: for every integer max_pages, zero and negative included, the job
\* fails with an error or persists a document whose table of contents lists
\* exactly the pages that have a section in it: no entry of the table links
\* to a page without a section.
C25_TocMatchesSections ==
    artifact.state = "written" => artifact.toc = PageNumbers(artifact.body)

\* The same for a max_pages of one or more.
C25_TocMatchesSectionsPositive ==
    (artifact.state = "written" /\ max_pages >= 1) =>
        artifact.toc = PageNumbers(artifact.body)

\* The last backend call failed.
LastCallFailed == calls # <<>> /\ calls[Len(calls)].result # "ok"

\* C28: the scratch directory holds at most one page image at any time: the
\* image of page k is deleted, whether the inference of page k succeeded or
\* failed, before page k+1 is rasterized.
C28_AtMostOneImage ==
    /\ Cardinality(images) <= 1
    /\ pc = "rasterize" => images = {}
    /\ (pc = "infer" /\ page_index >= 1) =>
          /\ page_index \notin images
          /\ calls # <<>> /\ calls[Len(calls)].page = page_index

C28_Witness ==
    /\ pc = "infer"
    /\ page_index = 1
    /\ images = {2}
    /\ LastCallFailed
    /\ Len(calls) = 1

-----------------------------------------------------------------------------
(* The configuration store: load_saved_configs (main.py:188-196),           *)
(* save_configs (main.py:198-288), and the requests that use them:          *)
(* GET /api/saved-configs (main.py:713-720) and the MCP server's            *)
(* get_model_and_prompt_by_id read it, POST /api/save-config                *)
(* (main.py:723-768) loads it, appends a preset and saves it.  The servers  *)
(* (main.py, mcp_http_server.py, and every further worker process of the    *)
(* application) are separate processes on one file, so their file           *)
(* operations interleave.  Inside one server process the handlers run to    *)
(* their end on the event loop (no await between load and save).            *)
(* POST /api/process appends a record to the history log in the same way    *)
(* (main.py:37-51, 569-578).                                                *)
(*                                                                         *)
(* The file is absent, or holds the text of a collection: all of it         *)
(* ("full"), a proper prefix of it ("partial"), or nothing yet ("empty").   *)

max_retries == 3

Procs == {1, 2}

\* A collection is the ids of its model presets and of its prompt presets.
Configs(ms, ps) == [models |-> ms, prompts |-> ps]

InitialFiles ==
    {[part |-> "absent", data |-> DefaultConfigs],
     [part |-> "full", data |-> Configs(<<"a">>, <<>>)],
     [part |-> "full", data |-> Configs(<<"a">>, <<"b">>)]}

File(part, data) == [part |-> part, data |-> data]

\* main.py:215: json.dumps(configs, ensure_ascii=False, indent=2), the text of
\* a collection, token by token.
json_dumps(c) ==
    <<"{", "models:", "[">> \o c.models \o <<"]", "prompts:", "[">>
        \o c.prompts \o <<"]", "}">>

\* The text a reader of the file finds: all of the text being written, its
\* first half, or nothing.
Text(f) ==
    IF f.part = "full" THEN json_dumps(f.data)
    ELSE IF f.part = "partial"
         THEN SubSeq(json_dumps(f.data), 1, Len(json_dumps(f.data)) \div 2)
         ELSE <<>>

\* json.load accepts a text: an object of the two lists, closed.
Parses(t) ==
    /\ Len(t) >= 8
    /\ t[1] = "{" /\ t[2] = "models:" /\ t[3] = "["
    /\ LET i == IndexFrom(t, "]", 4)
       IN  /\ i > 0
           /\ Len(t) >= i + 4
           /\ t[i + 1] = "prompts:" /\ t[i + 2] = "["
           /\ LET j == IndexFrom(t, "]", i + 3)
              IN  j > 0 /\ Len(t) = j + 1 /\ t[j + 1] = "}"

\* main.py:193, 225, 269: json.load, the collection a text stands for.
json_load(t) ==
    LET i == IndexFrom(t, "]", 4)
        j == IndexFrom(t, "]", i + 3)
    IN  [models |-> SubSeq(t, 4, i - 1), prompts |-> SubSeq(t, i + 3, j - 1)]

\* open and json.load succeed on a file that holds a complete JSON text, and
\* give its collection; they raise on a missing, empty or cut file.
Readable(f) == f.part # "absent" /\ Parses(Text(f))

\* The id uuid4 gives the preset of request p.
NewId(p) == IF p = 1 THEN "n1" ELSE "n2"

\* The history log is absent, or holds some records (their ids).
InitialHistories ==
    {[part |-> "absent", data |-> <<>>], [part |-> "full", data |-> <<"h0">>]}

\* main.py:49: json.dump(history, f, ...), the text of a history.
history_dumps(h) == <<"[">> \o h \o <<"]">>

\* The text a reader of the history file finds.
HistoryText(f) ==
    IF f.part = "full" THEN history_dumps(f.data)
    ELSE IF f.part = "partial"
         THEN SubSeq(history_dumps(f.data), 1, Len(f.data) + 1)
         ELSE <<>>

\* main.py:41: json.load accepts a closed list, and gives its records.
HistoryParses(t) == Len(t) >= 2 /\ t[1] = "[" /\ t[Len(t)] = "]"
history_load(t) == SubSeq(t, 2, Len(t) - 1)

\* The id uuid4 gives the history record of request p (main.py:572).
NewRecord(p) == IF p = 1 THEN "r1" ELSE "r2"

\* A request of kind k as it arrives: GET /api/saved-configs or an MCP tool
\* ("get"), POST /api/save-config ("save"), DELETE /api/delete-config
\* ("delete"), POST /api/process at the point where it logs a processed file
\* ("process").
Request(k) ==
    [kind |-> k,
     pc |-> IF k = "process" THEN "h_load_exists" ELSE "load_exists",
     configs |-> DefaultConfigs, attempt |-> 0,
     has_loaded |-> FALSE, loaded |-> DefaultConfigs,
     new |-> "none", config_id |-> "", verified |-> FALSE,
     before |-> <<>>, history |-> <<>>]

InitConfig ==
    /\ AdIdle
    /\ ReqIdle
    /\ CleanIdle
    /\ PdfIdle
    /\ SelIdle
    /\ config_file \in InitialFiles
    /\ history_file = [part |-> "absent", data |-> <<>>]
    /\ proc \in [Procs -> {Request(k) : k \in {"get", "save"}}]
    /\ written = IF Readable(config_file)
                 THEN {json_load(Text(config_file))}
                 ELSE {DefaultConfigs}

Set(p, f) == proc' = [proc EXCEPT ![p] = f]

AfterLoad(p) ==
    IF proc[p].kind = "get" THEN "done"
    ELSE IF proc[p].kind = "delete" THEN "delete"
    ELSE "append"

\* The other requests only read the store.
OnlyWriter(p) == \A q \in Procs \ {p} : proc[q].kind = "get"

\* The text the file holds when a writing request begins, kept (for the
\* properties only) when no other request writes.
TextBefore(p) ==
    IF OnlyWriter(p) /\ proc[p].kind # "get" THEN Text(config_file) ELSE <<>>

\* main.py:191, 194: CONFIG_FILE.exists()
LoadExists(p) ==
    /\ proc[p].pc = "load_exists"
    /\ IF config_file.part = "absent"
       THEN Set(p, [proc[p] EXCEPT !.loaded = DefaultConfigs,
                                   !.has_loaded = TRUE,
                                   !.before = TextBefore(p),
                                   !.pc = AfterLoad(p)])
       ELSE Set(p, [proc[p] EXCEPT !.before = TextBefore(p),
                                   !.pc = "load_read"])
    /\ UNCHANGED <<cleanVars, adVars, reqVars, pdfVars, selVars, config_file, history_file, written>>

\* main.py:192-193, 195-196: open and json.load; any exception gives the
\* default collection.
LoadRead(p) ==
    /\ proc[p].pc = "load_read"
    /\ Set(p, [proc[p] EXCEPT
               !.loaded = IF Readable(config_file)
                          THEN json_load(Text(config_file))
                          ELSE DefaultConfigs,
               !.has_loaded = TRUE,
               !.pc = AfterLoad(p)])
    /\ UNCHANGED <<cleanVars, adVars, reqVars, pdfVars, selVars, config_file, history_file, written>>

\* main.py:735-762: the new preset is appended to the loaded collection and
\* save_configs is entered.  The text the file holds at that moment is kept
\* (for the properties only) when no other request writes.
AppendPreset(p) ==
    /\ proc[p].pc = "append"
    /\ \E config_type \in {"model", "prompt"} :
        LET c == IF config_type = "model"
                 THEN [proc[p].loaded EXCEPT !.models = Append(@, NewId(p))]
                 ELSE [proc[p].loaded EXCEPT !.prompts = Append(@, NewId(p))]
        IN  /\ Set(p, [proc[p] EXCEPT !.configs = c, !.new = config_type,
                                      !.attempt = 0, !.pc = "sc_open",
                                      !.before = IF OnlyWriter(p)
                                                 THEN Text(config_file)
                                                 ELSE <<>>])
            /\ written' = written \cup {c}
    /\ UNCHANGED <<cleanVars, adVars, reqVars, pdfVars, selVars, config_file, history_file>>

\* An outer handler that allows one attempt more.
RetryOnceMore(p) ==
    IF proc[p].attempt < max_retries
    THEN [proc[p] EXCEPT !.attempt = @ + 1, !.pc = "sc_open"]
    ELSE [proc[p] EXCEPT !.pc = "failed"]

\* main.py:274-288: the outer handler: another attempt, or the HTTP 500.
Retry(p) ==
    IF proc[p].attempt < max_retries - 1
    THEN [proc[p] EXCEPT !.attempt = @ + 1, !.pc = "sc_open"]
    ELSE [proc[p] EXCEPT !.pc = "failed"]

\* main.py:218: open(CONFIG_FILE, 'w') creates or truncates the file.  An
\* OSError "Device or resource busy" is retried by the inner handler
\* (231-236), on the last attempt through the outer one; any other OSError
\* goes to the outer handler (237-238).
OpenForWrite(p) ==
    /\ proc[p].pc = "sc_open"
    /\ \/ /\ config_file' = File("empty", proc[p].configs)
          /\ Set(p, [proc[p] EXCEPT !.pc = "sc_write"])
       \/ /\ \E e \in {"busy", "denied"} : Set(p, Retry(p))
          /\ UNCHANGED config_file
    /\ UNCHANGED <<cleanVars, adVars, reqVars, pdfVars, selVars, history_file, written>>

\* main.py:219-221: the text reaches the file, at once or a part first; a
\* failed write (no space left) leaves what was written and raises OSError.
WriteDirect(p) ==
    /\ proc[p].pc \in {"sc_write", "sc_write_rest"}
    /\ \/ /\ config_file' = File("full", proc[p].configs)
          /\ Set(p, [proc[p] EXCEPT !.pc = "sc_verify"])
       \/ /\ proc[p].pc = "sc_write"
          /\ config_file' = File("partial", proc[p].configs)
          /\ Set(p, [proc[p] EXCEPT !.pc = "sc_write_rest"])
       \/ /\ UNCHANGED config_file
          /\ Set(p, Retry(p))
    /\ UNCHANGED <<cleanVars, adVars, reqVars, pdfVars, selVars, history_file, written>>

\* A direct write that returns without reading the file back.
VerifyDirectSkipped(p) ==
    /\ proc[p].pc = "sc_verify"
    /\ Set(p, [proc[p] EXCEPT !.pc = "done"])
    /\ UNCHANGED <<cleanVars, adVars, reqVars, pdfVars, selVars, config_file, history_file, written>>

\* main.py:224-229, 240-242: the file is read back; equal to configs, the
\* call returns; otherwise (another text, or no JSON) method 2 is tried.
VerifyDirect(p) ==
    /\ proc[p].pc = "sc_verify"
    /\ IF Readable(config_file)
          /\ json_load(Text(config_file)) = proc[p].configs
       THEN Set(p, [proc[p] EXCEPT !.pc = "done", !.verified = TRUE])
       ELSE Set(p, [proc[p] EXCEPT !.pc = "sc_tmp"])
    /\ UNCHANGED <<cleanVars, adVars, reqVars, pdfVars, selVars, config_file, history_file, written>>

\* main.py:246-256: the text is written to a temporary file in /tmp.
WriteTmp(p) ==
    /\ proc[p].pc = "sc_tmp"
    /\ \/ Set(p, [proc[p] EXCEPT !.pc = "sc_mv"])
       \/ Set(p, Retry(p))
    /\ UNCHANGED <<cleanVars, adVars, reqVars, pdfVars, selVars, config_file, history_file, written>>

\* main.py:260-265: mv, or shutil.move: a rename within one file system; a
\* copy over the destination followed by the removal of the source across
\* file systems (/tmp and the application directory), which a reader can
\* see half done.
MoveTmp(p) ==
    /\ proc[p].pc \in {"sc_mv", "sc_mv_rest"}
    /\ \/ /\ config_file' = File("full", proc[p].configs)
          /\ Set(p, [proc[p] EXCEPT !.pc = "sc_final_verify"])
       \/ /\ proc[p].pc = "sc_mv"
          /\ config_file' = File("empty", proc[p].configs)
          /\ Set(p, [proc[p] EXCEPT !.pc = "sc_mv_rest"])
       \/ /\ UNCHANGED config_file
          /\ Set(p, Retry(p))
    /\ UNCHANGED <<cleanVars, adVars, reqVars, pdfVars, selVars, history_file, written>>

\* main.py:267-272: the last check of the file against configs.
FinalVerify(p) ==
    /\ proc[p].pc = "sc_final_verify"
    /\ IF Readable(config_file)
          /\ json_load(Text(config_file)) = proc[p].configs
       THEN Set(p, [proc[p] EXCEPT !.pc = "done", !.verified = TRUE])
       ELSE Set(p, Retry(p))
    /\ UNCHANGED <<cleanVars, adVars, reqVars, pdfVars, selVars, config_file, history_file, written>>

\* main.py:39, 43: load_history, HISTORY_FILE.exists()
HistoryExists(p) ==
    /\ proc[p].pc = "h_load_exists"
    /\ IF history_file.part = "absent"
       THEN Set(p, [proc[p] EXCEPT !.history = <<>>, !.pc = "h_append"])
       ELSE Set(p, [proc[p] EXCEPT !.pc = "h_load_read"])
    /\ UNCHANGED <<cleanVars, adVars, reqVars, pdfVars, selVars, config_file, history_file, written>>

\* main.py:40-41, 44-45: open and json.load; any exception gives [].
HistoryRead(p) ==
    /\ proc[p].pc = "h_load_read"
    /\ Set(p, [proc[p] EXCEPT
               !.history = IF history_file.part # "absent"
                              /\ HistoryParses(HistoryText(history_file))
                           THEN history_load(HistoryText(history_file))
                           ELSE <<>>,
               !.pc = "h_append"])
    /\ UNCHANGED <<cleanVars, adVars, reqVars, pdfVars, selVars, config_file, history_file, written>>

\* main.py:571-578: the record of the processed file is appended to the
\* loaded history and save_history is entered.
AppendHistory(p) ==
    /\ proc[p].pc = "h_append"
    /\ Set(p, [proc[p] EXCEPT !.history = Append(@, NewRecord(p)),
                              !.pc = "h_open"])
    /\ UNCHANGED <<cleanVars, adVars, reqVars, pdfVars, selVars, config_file, history_file, written>>

\* main.py:48, 50-51: open(HISTORY_FILE, 'w') creates or truncates the file;
\* an exception becomes the HTTP 500.
OpenHistory(p) ==
    /\ proc[p].pc = "h_open"
    /\ \/ /\ history_file' = [part |-> "empty", data |-> proc[p].history]
          /\ Set(p, [proc[p] EXCEPT !.pc = "h_write"])
       \/ /\ UNCHANGED history_file
          /\ Set(p, [proc[p] EXCEPT !.pc = "failed"])
    /\ UNCHANGED <<cleanVars, adVars, reqVars, pdfVars, selVars, config_file, written>>

\* main.py:49-51: json.dump writes the text piece by piece; the file is
\* closed with all of it, or the write fails and leaves what was written.
DumpHistory(p) ==
    /\ proc[p].pc \in {"h_write", "h_write_rest"}
    /\ \/ /\ history_file' = [part |-> "full", data |-> proc[p].history]
          /\ Set(p, [proc[p] EXCEPT !.pc = "done"])
       \/ /\ proc[p].pc = "h_write"
          /\ history_file' = [part |-> "partial", data |-> proc[p].history]
          /\ Set(p, [proc[p] EXCEPT !.pc = "h_write_rest"])
       \/ /\ UNCHANGED history_file
          /\ Set(p, [proc[p] EXCEPT !.pc = "failed"])
    /\ UNCHANGED <<cleanVars, adVars, reqVars, pdfVars, selVars, config_file, written>>

\* The steps of a request of server process p on the configuration store.
ConfigStep(p) ==
    \/ LoadExists(p)
    \/ LoadRead(p)
    \/ AppendPreset(p)
    \/ OpenForWrite(p)
    \/ WriteDirect(p)
    \/ VerifyDirect(p)
    \/ WriteTmp(p)
    \/ MoveTmp(p)
    \/ FinalVerify(p)

\* The steps of a request of server process p on the history log.
HistoryStep(p) ==
    \/ HistoryExists(p)
    \/ HistoryRead(p)
    \/ AppendHistory(p)
    \/ OpenHistory(p)
    \/ DumpHistory(p)

NextConfig == \E p \in Procs : ConfigStep(p)

SpecConfig == InitConfig /\ [][NextConfig]_vars

\* Every request is served: its server process keeps running.
SpecConfigLive == SpecConfig /\ \A p \in Procs : WF_vars(ConfigStep(p))

\* Two requests that each add an entry to a store: a preset to the
\* configuration store, a record to the history log.
InitStores ==
    /\ AdIdle
    /\ ReqIdle
    /\ CleanIdle
    /\ PdfIdle
    /\ SelIdle
    /\ config_file \in InitialFiles
    /\ history_file \in InitialHistories
    /\ proc \in [Procs -> {Request(k) : k \in {"save", "process"}}]
    /\ written = IF Readable(config_file)
                 THEN {json_load(Text(config_file))}
                 ELSE {DefaultConfigs}

NextStores == \E p \in Procs : ConfigStep(p) \/ HistoryStep(p)

SpecStores == InitStores /\ [][NextStores]_vars

\* A list comprehension [m for m in entries if m["id"] != id].
RECURSIVE Kept(_, _)
Kept(entries, id) ==
    IF entries = <<>> THEN <<>>
    ELSE (IF Head(entries) # id THEN <<Head(entries)>> ELSE <<>>)
         \o Kept(Tail(entries), id)

\* The ids a delete request can name: of stored presets, and of none.
ConfigIds == {"a", "b", "zz"}

\* A delete that filters both collections.
DeleteEntriesBoth(p) ==
    /\ proc[p].pc = "delete"
    /\ \E config_type \in {"model", "prompt"}, config_id \in ConfigIds :
        LET c == [models |-> Kept(proc[p].loaded.models, config_id),
                  prompts |-> Kept(proc[p].loaded.prompts, config_id)]
        IN  /\ Set(p, [proc[p] EXCEPT !.configs = c, !.new = config_type,
                                      !.config_id = config_id,
                                      !.attempt = 0, !.pc = "sc_open"])
            /\ written' = written \cup {c}
    /\ UNCHANGED <<cleanVars, adVars, reqVars, pdfVars, selVars, config_file, history_file>>

\* main.py:779-789: the entries with the given id are filtered out of the
\* chosen collection of the loaded store and save_configs is entered.
DeleteEntries(p) ==
    /\ proc[p].pc = "delete"
    /\ \E config_type \in {"model", "prompt"}, config_id \in ConfigIds :
        LET c == IF config_type = "model"
                 THEN [proc[p].loaded EXCEPT !.models = Kept(@, config_id)]
                 ELSE [proc[p].loaded EXCEPT !.prompts = Kept(@, config_id)]
        IN  /\ Set(p, [proc[p] EXCEPT !.configs = c, !.new = config_type,
                                      !.config_id = config_id,
                                      !.attempt = 0, !.pc = "sc_open"])
            /\ written' = written \cup {c}
    /\ UNCHANGED <<cleanVars, adVars, reqVars, pdfVars, selVars, config_file, history_file>>

\* main.py:785-786: any other config_type is answered with the HTTP 400,
\* before save_configs.
RejectConfigType(p) ==
    /\ proc[p].pc = "delete"
    /\ \E config_id \in ConfigIds :
        Set(p, [proc[p] EXCEPT !.new = "invalid", !.config_id = config_id,
                               !.pc = "rejected"])
    /\ UNCHANGED <<cleanVars, adVars, reqVars, pdfVars, selVars, config_file, history_file, written>>

\* The stores a delete request finds: the same id can stand in both
\* collections, and twice in one (a store edited by hand).
DeleteFiles ==
    InitialFiles \cup {[part |-> "full",
                        data |-> Configs(<<"a", "b", "a">>, <<"a">>)]}

\* A delete request, and a reader or a save request beside it.
InitDelete ==
    /\ AdIdle
    /\ ReqIdle
    /\ CleanIdle
    /\ PdfIdle
    /\ SelIdle
    /\ config_file \in DeleteFiles
    /\ history_file = [part |-> "absent", data |-> <<>>]
    /\ proc \in {[p \in Procs |-> IF p = 1 THEN Request("delete")
                                           ELSE Request(k)] :
                    k \in {"get", "save"}}
    /\ written = IF Readable(config_file)
                 THEN {json_load(Text(config_file))}
                 ELSE {DefaultConfigs}

DeleteStep(p) ==
    \/ ConfigStep(p)
    \/ DeleteEntries(p)
    \/ RejectConfigType(p)

NextDelete == \E p \in Procs : DeleteStep(p)

SpecDelete == InitDelete /\ [][NextDelete]_vars

-----------------------------------------------------------------------------
(* Properties of the configuration store (SpecConfig) *)

\* C10: whatever the interleaving of a save_configs call with a
\* load_saved_configs call, the reader obtains the complete collection stored
\* before the write or the complete one being written; never the result of
\* an empty or partly written file, nor the default collection in its place.
C10_ReaderSeesCompleteCollection ==
    \A p \in Procs :
        proc[p].has_loaded => proc[p].loaded \in written

\* C11: when save_configs fails (raises to its caller after its last
\* attempt) and no other request wrote in the meantime, the configuration
\* file holds the text it held when the call began.
C11_FailedSaveLeavesStore ==
    \A p \in Procs :
        (proc[p].kind = "save" /\ proc[p].pc = "failed" /\ OnlyWriter(p))
            => Text(config_file) = proc[p].before

\* C12: save_configs returns only after it read the file back and found the
\* collection it was given; with no other writer, load_saved_configs then
\* finds a file that parses to that collection.
C12_ReturnImpliesRoundTrip ==
    \A p \in Procs :
        (proc[p].kind = "save" /\ proc[p].pc = "done")
            => /\ proc[p].verified
               /\ OnlyWriter(p)
                    => /\ Readable(config_file)
                       /\ json_load(Text(config_file)) = proc[p].configs

C12_Witness ==
    \E p \in Procs :
        /\ proc[p].kind = "save" /\ proc[p].pc = "done" /\ OnlyWriter(p)
        /\ proc[p].configs = Configs(<<"a">>, <<"b", NewId(p)>>)
        /\ Text(config_file) = json_dumps(proc[p].configs)

\* The requests that have left save_configs, by return or by the HTTP 500.
Terminated(p) == proc[p].pc \in {"done", "failed"}

C13_Bounded ==
    \A p \in Procs :
        /\ proc[p].attempt + 1 <= max_retries
        /\ proc[p].pc = "failed" /\ proc[p].kind = "save"
              => proc[p].attempt = max_retries - 1
        /\ proc[p].pc = "done" /\ proc[p].kind = "save" => proc[p].verified

\* C13: save_configs enters its loop body at most max_retries (3) times and
\* every call ends: by a return after a read-back that matched, or by the
\* HTTP 500 raised in the third attempt; it never makes a fourth attempt and
\* never returns without a matching read-back.
C13_BoundedAndTerminates ==
    /\ []C13_Bounded
    /\ \A p \in Procs : <>Terminated(p)

\* The file was busy, or the write failed, in each of the three attempts.
C13_Witness ==
    \E p \in Procs :
        /\ proc[p].kind = "save" /\ proc[p].pc = "failed"
        /\ proc[p].attempt = max_retries - 1

Present(c, id) == Has(c.models, id) \/ Has(c.prompts, id)

\* C14: when two requests that each add an entry to the same store have both
\* completed, the store holds both entries: the two presets of two
\* /api/save-config requests, the two records of two /api/process requests.
C14_NoLostUpdate ==
    /\ (\A p \in Procs : proc[p].kind = "save" /\ proc[p].pc = "done")
          => /\ Readable(config_file)
             /\ \A p \in Procs :
                   Present(json_load(Text(config_file)), NewId(p))
    /\ (\A p \in Procs : proc[p].kind = "process" /\ proc[p].pc = "done")
          => /\ HistoryParses(HistoryText(history_file))
             /\ \A p \in Procs :
                   Has(history_load(HistoryText(history_file)), NewRecord(p))

\* The same for the history log alone.
C14_NoLostRecord ==
    (\A p \in Procs : proc[p].kind = "process" /\ proc[p].pc = "done")
        => /\ HistoryParses(HistoryText(history_file))
           /\ \A p \in Procs :
                 Has(history_load(HistoryText(history_file)), NewRecord(p))

\* s is the beginning of t.
IsPrefix(s, t) == Len(s) <= Len(t) /\ SubSeq(t, 1, Len(s)) = s

\* The collection the store held when the requests arrived: the one
\* collection of `written` that holds no preset of a request.
StoreAtFirst ==
    CHOOSE c \in written :
        \A q \in Procs : ~Present(c, NewId(q))

\* C27: a successful /api/save-config loses no preset: the collection it
\* stored (the one it found in the file when it read it back) holds every
\* preset the store held before the request, unchanged and in order, and the
\* new preset at the end of its collection; also when the file was
\* unreadable or no valid JSON at the moment the request loaded it.
C27_SaveKeepsPresets ==
    \A p \in Procs :
        (proc[p].kind = "save" /\ proc[p].pc = "done") =>
            LET c == proc[p].configs
                added == IF proc[p].new = "model" THEN c.models ELSE c.prompts
            IN  /\ IsPrefix(StoreAtFirst.models, c.models)
                /\ IsPrefix(StoreAtFirst.prompts, c.prompts)
                /\ added # <<>> /\ added[Len(added)] = NewId(p)

\* The same for a request that found a readable file, or none, and no other
\* writer at work.
C27_SaveKeepsPresetsAlone ==
    \A p \in Procs :
        (proc[p].kind = "save" /\ proc[p].pc = "done" /\ OnlyWriter(p)) =>
            LET c == proc[p].configs
                added == IF proc[p].new = "model" THEN c.models ELSE c.prompts
            IN  /\ IsPrefix(StoreAtFirst.models, c.models)
                /\ IsPrefix(StoreAtFirst.prompts, c.prompts)
                /\ added # <<>> /\ added[Len(added)] = NewId(p)

\* The collection a text of the file stands for; the default one for no
\* file, as load_saved_configs reads it.
Held(t) == IF Parses(t) THEN json_load(t) ELSE DefaultConfigs

\* C29: delete_config with a valid config_type removes from the chosen
\* collection exactly the entries whose id is config_id and leaves the other
\* collection, and the content and order of the other entries, as they were
\* (an id that matches nothing changes nothing); an invalid config_type is
\* answered with the HTTP 400 and the store is not written.
C29_DeleteRemovesExactly ==
    \A p \in Procs :
        (proc[p].kind = "delete" /\ OnlyWriter(p)) =>
            /\ proc[p].pc = "done" =>
                  /\ Readable(config_file)
                  /\ LET b == Held(proc[p].before)
                         a == json_load(Text(config_file))
                         id == proc[p].config_id
                     IN  IF proc[p].new = "model"
                         THEN /\ a.models = SelectSeq(b.models, LAMBDA x : x # id)
                              /\ a.prompts = b.prompts
                         ELSE /\ a.prompts = SelectSeq(b.prompts, LAMBDA x : x # id)
                              /\ a.models = b.models
                  /\ ~Has(proc[p].before, proc[p].config_id)
                        => json_load(Text(config_file)) = Held(proc[p].before)
            /\ proc[p].pc = "rejected" =>
                  /\ proc[p].new = "invalid"
                  /\ Text(config_file) = proc[p].before
                  /\ written = {Held(proc[p].before)}

C29_Witness ==
    \E p \in Procs :
        /\ proc[p].kind = "delete" /\ proc[p].pc = "done"
        /\ proc[p].before = json_dumps(Configs(<<"a", "b", "a">>, <<"a">>))
        /\ proc[p].new = "model" /\ proc[p].config_id = "a"
        /\ Text(config_file) = json_dumps(Configs(<<"b">>, <<"a">>))

-----------------------------------------------------------------------------
(* The backend adapters: run_mlx_vlm_generate (main.py:85-122) starts the   *)
(* model process and waits for it, run_api_generate (main.py:125-185) sends *)
(* one chat-completion request.  What the process or the endpoint does is   *)
(* the input; the adapters are functions of it.                             *)

mlx_timeout == 300

OOM_A == "Insufficient Memory"
OOM_B == "OutOfMemory"

\* What the model process prints on stdout, on stderr.
ProcessTexts == {<<>>, <<SP>>, <<TEXT>>, <<OOM_B>>, <<TEXT, OOM_A>>}

\* The process cannot be started (no such executable: OSError), prints bytes
\* that are no text (text=True: UnicodeDecodeError), or runs for some seconds
\* and, if it is not killed at the limit, exits with a return code.
ProcessOutcomes ==
    {[how |-> h, elapsed |-> 0, returncode |-> 0, stdout |-> <<>>,
      stderr |-> <<>>] : h \in {"not_started", "undecodable"}}
    \cup {[how |-> "ran", elapsed |-> t, returncode |-> rc, stdout |-> o,
           stderr |-> e] : t \in {10, 400}, rc \in {0, 1},
                           o \in ProcessTexts, e \in ProcessTexts}

Return(type, v) ==
    [kind |-> "return", exc |-> type, detail |-> "none", value |-> v]
Raise(exc, detail, v) ==
    [kind |-> "raise", exc |-> exc, detail |-> detail, value |-> v]

\* main.py:98-122.  subprocess.run raises OSError when the executable is
\* missing and UnicodeDecodeError on undecodable output: neither is caught.
run_mlx_vlm_generate(c) ==
    IF c.how = "not_started" THEN Raise("OSError", "launch", <<>>)
    ELSE IF c.elapsed > mlx_timeout
    THEN Raise("HTTPException", "timeout", <<>>)
    ELSE IF c.how = "undecodable"
    THEN Raise("UnicodeDecodeError", "decode", <<>>)
    ELSE IF c.returncode = 0
    THEN LET stdout == Strip(c.stdout)
         IN  Return("str", IF stdout = <<>> THEN Strip(c.stderr) ELSE stdout)
    ELSE LET stderr == c.stdout \o <<NL>> \o c.stderr
         IN  IF Has(stderr, OOM_A) \/ Has(stderr, OOM_B)
             THEN Raise("HTTPException", "out_of_memory", Strip(stderr))
             ELSE Raise("HTTPException", "failed", Strip(stderr))

\* An entry of "choices": with or without "message", with or without
\* "content" in it; the content is a string ("str") or null ("NoneType").
Entry(hm, hc, type) ==
    [has_message |-> hm, has_content |-> hc, type |-> type,
     content |-> IF hc /\ type = "str" THEN <<TEXT>> ELSE <<>>]

Body(json, hc, choices) ==
    [json |-> json, has_choices |-> hc, choices |-> choices]

\* The bodies of a response: no JSON, a JSON list, a JSON object.
Bodies ==
    {Body("invalid", FALSE, <<>>),
     Body("list", FALSE, <<>>),
     Body("object", FALSE, <<>>),
     Body("object", TRUE, <<>>),
     Body("object", TRUE, <<Entry(FALSE, FALSE, "NoneType")>>),
     Body("object", TRUE, <<Entry(TRUE, FALSE, "NoneType")>>),
     Body("object", TRUE, <<Entry(TRUE, TRUE, "NoneType")>>),
     Body("object", TRUE, <<Entry(TRUE, TRUE, "str")>>),
     Body("object", TRUE, <<Entry(TRUE, TRUE, "str"),
                            Entry(FALSE, FALSE, "NoneType")>>),
     Body("object", TRUE, <<Entry(TRUE, FALSE, "NoneType"),
                            Entry(TRUE, TRUE, "str")>>)}

\* The image file cannot be read, the request fails in transport, or the
\* endpoint answers with a status and a body.
Responses ==
    {[image |-> "unreadable", transport |-> "none", status |-> 0,
      body |-> Body("invalid", FALSE, <<>>)]}
    \cup {[image |-> "ok", transport |-> t, status |-> 0,
           body |-> Body("invalid", FALSE, <<>>)]
          : t \in {"connection_error", "timeout"}}
    \cup {[image |-> "ok", transport |-> "ok", status |-> st, body |-> b]
          : st \in {200, 404, 500}, b \in Bodies}

\* An adapter that does not look at the status of the response.
run_api_generate_any_status(r) ==
    IF r.image # "ok" THEN Raise("HTTPException", "api_error", <<>>)
    ELSE IF r.transport # "ok"
    THEN Raise("HTTPException", "request_failed", <<>>)
    ELSE IF r.body.json = "invalid"
    THEN Raise("HTTPException", "request_failed", <<>>)
    ELSE IF r.body.json = "object" /\ r.body.has_choices
            /\ Len(r.body.choices) > 0
    THEN LET first == r.body.choices[1]
         IN  IF first.has_message /\ first.has_content
             THEN Return(first.type, first.content)
             ELSE Raise("HTTPException", "api_error", <<>>)
    ELSE Raise("HTTPException", "api_error", <<>>)

\* main.py:126-185.  The HTTPException of a status other than 200 (166-170),
\* the one of a body without choices (180) and the KeyError of a missing
\* "message" or "content" (177) are raised inside the try block and leave it
\* as the HTTPException of 184-185; a RequestException as that of 182-183.
run_api_generate(r) ==
    IF r.image # "ok" THEN Raise("HTTPException", "api_error", <<>>)
    ELSE IF r.transport # "ok"
    THEN Raise("HTTPException", "request_failed", <<>>)
    ELSE IF r.status # 200 THEN Raise("HTTPException", "api_error", <<>>)
    ELSE IF r.body.json = "invalid"
    THEN Raise("HTTPException", "request_failed", <<>>)
    ELSE IF r.body.json = "object" /\ r.body.has_choices
            /\ Len(r.body.choices) > 0
    THEN LET first == r.body.choices[1]
         IN  IF first.has_message /\ first.has_content
             THEN Return(first.type, first.content)
             ELSE Raise("HTTPException", "api_error", <<>>)
    ELSE Raise("HTTPException", "api_error", <<>>)

\* The adapter calls of a job and their inputs.
InitAdapter ==
    /\ ReqIdle
    /\ CleanIdle
    /\ PdfIdle
    /\ SelIdle
    /\ CfgIdle
    /\ adapter \in {"local", "remote"}
    /\ IF adapter = "local"
       THEN completed \in ProcessOutcomes /\ response = NoResponse
       ELSE completed = NoProcess /\ response \in Responses
    /\ ret = NoResult
    /\ launches = 0
    /\ apc = "ready"

\* main.py:98-122: one subprocess.run.
RunLocal ==
    /\ apc = "ready"
    /\ adapter = "local"
    /\ launches' = launches + 1
    /\ ret' = run_mlx_vlm_generate(completed)
    /\ apc' = "called"
    /\ UNCHANGED <<cleanVars, pdfVars, selVars, cfgVars, reqVars, adapter, completed,
                   response>>

\* main.py:126-185: one requests.post, when the image could be read.
RunRemote ==
    /\ apc = "ready"
    /\ adapter = "remote"
    /\ launches' = IF response.image = "ok" THEN launches + 1 ELSE launches
    /\ ret' = run_api_generate(response)
    /\ apc' = "called"
    /\ UNCHANGED <<cleanVars, pdfVars, selVars, cfgVars, reqVars, adapter, completed,
                   response>>

NextAdapter == RunLocal \/ RunRemote

SpecAdapter == InitAdapter /\ [][NextAdapter]_vars

-----------------------------------------------------------------------------
(* Properties of the backend adapters (SpecAdapter) *)

\* What the process printed, as the adapter joins it (main.py:117).
Captured(c) == c.stdout \o <<NL>> \o c.stderr

ReportsOOM(c) == Has(Captured(c), OOM_A) \/ Has(Captured(c), OOM_B)

Succeeded(c) ==
    c.how = "ran" /\ c.elapsed <= mlx_timeout /\ c.returncode = 0

TimedOut(c) == c.how = "ran" /\ c.elapsed > mlx_timeout

\* The four outcomes of the local call, each under its condition.
FourOutcomes(c, r) ==
    \/ /\ Succeeded(c)
       /\ r.kind = "return"
       /\ r.value \in {Strip(c.stdout), Strip(c.stderr)}
    \/ /\ TimedOut(c)
       /\ r = Raise("HTTPException", "timeout", <<>>)
    \/ /\ ~Succeeded(c) /\ ~TimedOut(c) /\ ReportsOOM(c)
       /\ r.kind = "raise" /\ r.exc = "HTTPException"
       /\ r.detail = "out_of_memory"
    \/ /\ ~Succeeded(c) /\ ~TimedOut(c) /\ ~ReportsOOM(c)
       /\ r = Raise("HTTPException", "failed", Strip(Captured(c)))

\* C19: the local call ends in exactly one of four ways: the captured text
\* when the process exits successfully, the timeout error when the 300 s are
\* exceeded, the out-of-memory error when the captured output of the failed
\* process reports it, the generic error with the captured output in every
\* other failure.
C19_FourOutcomes ==
    (adapter = "local" /\ apc = "called") => FourOutcomes(completed, ret)

\* The same for the calls whose process was started and printed text.
C19_FourOutcomesWhenRan ==
    (adapter = "local" /\ apc = "called" /\ completed.how = "ran")
        => FourOutcomes(completed, ret)

\* The response the remote adapter takes a text from.
HasContent(r) ==
    /\ r.image = "ok"
    /\ r.transport = "ok"
    /\ r.status = 200
    /\ r.body.json = "object"
    /\ r.body.has_choices
    /\ Len(r.body.choices) > 0
    /\ r.body.choices[1].has_message
    /\ r.body.choices[1].has_content

\* C20: the remote call returns only for a response of status 200 whose body
\* has a non-empty choices list with a message content in its first entry,
\* and then returns that content; for any other status, missing or empty
\* choices, a missing content or a transport error it raises the inference
\* failure (HTTPException) and returns nothing.
C20_RemoteOutcome ==
    (adapter = "remote" /\ apc = "called") =>
        /\ ret.kind \in {"return", "raise"}
        /\ ret.kind = "return" <=> HasContent(response)
        /\ ret.kind = "return" =>
             ret.value = response.body.choices[1].content
        /\ ret.kind = "raise" =>
             ret.exc = "HTTPException" /\ ret.value = <<>>

C20_Witness ==
    /\ adapter = "remote"
    /\ apc = "called"
    /\ response.status = 200
    /\ Len(response.body.choices) = 2
    /\ ret = Return("str", <<TEXT>>)
    /\ launches = 1

-----------------------------------------------------------------------------
(* save_markdown (main.py:361-367) *)

\* main.py:363: the characters replaced, in the order of the list.
UnsafeChars == <<"\\", "/", ":", "*", "?", "\"", "<", ">", "|">>

\* The characters of a base name: the nine above, a letter, the dot and the
\* underscore.
NameChars == {UnsafeChars[i] : i \in 1..Len(UnsafeChars)} \cup {"a", ".", "_"}

\* str.replace(ch, '_')
RECURSIVE Replace(_, _)
Replace(name, ch) ==
    IF name = <<>> THEN <<>>
    ELSE <<IF Head(name) = ch THEN "_" ELSE Head(name)>>
         \o Replace(Tail(name), ch)

RECURSIVE ReplaceEach(_, _)
ReplaceEach(name, chars) ==
    IF chars = <<>> THEN name
    ELSE ReplaceEach(Replace(name, Head(chars)), Tail(chars))

\* A loop that leaves the slash in the name.
SafeNameKeepingSlash(name) ==
    ReplaceEach(name, SelectSeq(UnsafeChars, LAMBDA ch : ch # "/"))

\* main.py:362-364: safe_name
SafeName(name) == ReplaceEach(name, UnsafeChars)

\* main.py:27: OUTPUT_DIR = APP_ROOT / "outputs", by path components.
APP_ROOT == <<<<"app">>>>
OUTPUT_DIR == Append(APP_ROOT, <<"outputs">>)

\* The components of a relative or absolute path text: the pieces between
\* slashes, without the empty ones and the single dots.
RECURSIVE Components(_)
Components(name) ==
    LET i == IndexFrom(name, "/", 1)
        first == IF i = 0 THEN name ELSE SubSeq(name, 1, i - 1)
        rest == IF i = 0 THEN <<>> ELSE Components(Tail_(name, i + 1))
    IN  (IF first = <<>> \/ first = <<".">> THEN <<>> ELSE <<first>>) \o rest

\* The directory entry a path designates: each ".." leaves the directory
\* reached so far (the root is its own parent).
RECURSIVE Resolve(_, _)
Resolve(reached, comps) ==
    IF comps = <<>> THEN reached
    ELSE IF Head(comps) = <<".", ".">>
         THEN Resolve(IF reached = <<>> THEN <<>>
                      ELSE SubSeq(reached, 1, Len(reached) - 1), Tail(comps))
    ELSE Resolve(Append(reached, Head(comps)), Tail(comps))

\* pathlib's dir / name, as the file system resolves it: an absolute name
\* replaces the directory.
Join(dir, name) ==
    IF name # <<>> /\ Head(name) = "/"
    THEN Resolve(<<>>, Components(name))
    ELSE Resolve(dir, Components(name))

\* main.py:365: out_path = OUTPUT_DIR / f"{safe_name}.md"
SavePath(name) == Join(OUTPUT_DIR, SafeName(name) \o <<".", "m", "d">>)

\* The texts written: the markdown of the upload at a position (0 for
\* none), with or without a batch title before it, or of a merged document.
MdText(i, titled) == [input |-> i, titled |-> titled, merged |-> FALSE]
MergedText == [input |-> 0, titled |-> FALSE, merged |-> TRUE]
NoText == [input |-> -1, titled |-> FALSE, merged |-> FALSE]

\* Path.write_text: the file at the path holds the text, whatever it held.
Write(dir, path, text) ==
    {f \in dir : f.path # path} \cup {[path |-> path, text |-> text]}

\* The base names of at most n characters.
Names(n) == TextsOver(NameChars, n)

InitSave ==
    /\ AdIdle
    /\ CleanIdle
    /\ PdfIdle
    /\ SelIdle
    /\ CfgIdle
    /\ files = <<>>
    /\ batch_size = 1
    /\ merge_output = FALSE
    /\ rpc = "save"
    /\ cursor = 0
    /\ upload_dir = {}
    /\ outputs = {}
    /\ results = <<>>
    /\ events = <<>>
    /\ base_name \in Names(MaxName)
    /\ out_path = <<>>

\* main.py:361-367: the call returns the path it wrote to, or write_text
\* raises and leaves no file, or an empty one.
SaveMarkdown ==
    /\ rpc = "save"
    /\ \/ /\ outputs' = Write(outputs, SavePath(base_name), MdText(0, FALSE))
          /\ out_path' = SavePath(base_name)
          /\ rpc' = "saved"
       \/ /\ outputs' \in {outputs, Write(outputs, SavePath(base_name), NoText)}
          /\ rpc' = "failed"
          /\ UNCHANGED out_path
    /\ UNCHANGED <<cleanVars, pdfVars, selVars, cfgVars, adVars, files,
                   batch_size, merge_output, cursor, upload_dir, results,
                   events, base_name>>

NextSave == SaveMarkdown

SpecSave == InitSave /\ [][NextSave]_vars

\* The name the claim gives the artifact of a base name.
ArtifactName(name) ==
    [i \in 1..Len(name) |->
        IF name[i] \in {"\\", "/", ":", "*", "?", "\"", "<", ">", "|"}
        THEN "_" ELSE name[i]] \o <<".", "m", "d">>

\* C21: save_markdown writes the artifact as a direct child of the output
\* directory, under the base name with each path-unsafe character replaced
\* by an underscore, every other character unchanged, and ".md" after it;
\* no base name makes a file appear outside the output directory.
C21_ArtifactInOutputDir ==
    /\ \A f \in outputs :
          /\ Len(f.path) = Len(OUTPUT_DIR) + 1
          /\ SubSeq(f.path, 1, Len(OUTPUT_DIR)) = OUTPUT_DIR
    /\ rpc = "saved" =>
          /\ out_path = Append(OUTPUT_DIR, ArtifactName(base_name))
          /\ outputs = {[path |-> out_path, text |-> MdText(0, FALSE)]}

C21_Witness ==
    /\ rpc = "saved"
    /\ base_name = <<".", ".", "/">>
    /\ out_path = Append(OUTPUT_DIR, <<".", ".", "_", ".", "m", "d">>)

-----------------------------------------------------------------------------
(* Uploaded files *)

\* The names of the uploaded files: a stem and a suffix.
Stems == {<<"a">>, <<"b">>}
Suffixes == {".pdf", ".PNG", ".txt"}
Filenames == {Append(st, su) : st \in Stems, su \in Suffixes}

\* The lists of at most n uploaded files.
Uploads(n) == TextsOver(Filenames, n)

\* Path(uf.filename).stem
Stem(filename) == SubSeq(filename, 1, Len(filename) - 1)

\* str.lower() on a suffix
Lower(suffix) == IF suffix = ".PNG" THEN ".png" ELSE suffix

\* Path(uf.filename).suffix.lower()
SuffixOf(filename) == Lower(filename[Len(filename)])

\* main.py:519, 845
ImageSuffixes == {".png", ".jpg", ".jpeg", ".webp", ".bmp", ".tiff"}

IsPdf(filename) == SuffixOf(filename) = ".pdf"
IsImage(filename) == SuffixOf(filename) \in ImageSuffixes

\* The positions, ascending from i, of the files of fs with a suffix of S.
RECURSIVE PositionsFrom(_, _, _)
PositionsFrom(fs, i, S) ==
    IF i > Len(fs) THEN <<>>
    ELSE (IF SuffixOf(fs[i]) \in S THEN <<i>> ELSE <<>>)
         \o PositionsFrom(fs, i + 1, S)

\* main.py:513-520: pdf_files and image_files, by position in files.
pdf_files == PositionsFrom(files, 1, {".pdf"})
image_files == PositionsFrom(files, 1, ImageSuffixes)

\* main.py:584-586: len(image_batches) for range(0, n, batch_size) with a
\* step of one or more; a negative step gives no batch (a step of zero
\* raises).
NumImageBatches ==
    IF batch_size < 1 THEN 0
    ELSE (Len(image_files) + batch_size - 1) \div batch_size

\* The order /api/process handles the files in: the PDFs, then the images
\* of the batches.
Order == pdf_files \o (IF batch_size >= 1 THEN image_files ELSE <<>>)

\* The name uuid4 gives the temporary copy of the file at position i.
TempName(i) == <<ToString(i), SuffixOf(files[i])>>

\* main.py:559-566: the entry of results for a processed file; the output
\* reference is the name of the artifact under /outputs/.
Result(i, path, text) ==
    [input |-> i, output_markdown |-> path[Len(path)], markdown |-> text,
     error |-> FALSE]

\* main.py:869-872: the entry of results for a file that failed.
ErrorResult(i) ==
    [input |-> i, output_markdown |-> <<>>, markdown |-> NoText,
     error |-> TRUE]

\* main.py:569-578: load_history, append, save_history.
LogHistory(i) ==
    history_file' =
        [part |-> "full",
         data |-> Append(IF history_file.part # "absent"
                            /\ HistoryParses(HistoryText(history_file))
                         THEN history_load(HistoryText(history_file))
                         ELSE <<>>,
                         ToString(i))]

-----------------------------------------------------------------------------
(* POST /api/process: process_files (main.py:483-701) *)

BatchSizes == {-1, 0, 1, 2}

InitProcess ==
    /\ AdIdle
    /\ CleanIdle
    /\ PdfIdle
    /\ SelIdle
    /\ CfgIdle
    /\ files \in Uploads(MaxFiles)
    /\ batch_size \in BatchSizes
    /\ merge_output \in BOOLEAN
    /\ rpc = "request"
    /\ cursor = 0
    /\ upload_dir = {}
    /\ outputs = {}
    /\ results = <<>>
    /\ events = <<>>
    /\ base_name = <<>>
    /\ out_path = <<>>

\* Where the handler stands when the file at position c of its order is
\* next: in the PDF loop, at the range() of the image batches (main.py:584,
\* ValueError for a step of zero), in the image loops, or behind them.
Stage(c) ==
    IF c <= Len(pdf_files) THEN "file"
    ELSE IF image_files # <<>> /\ batch_size = 0 THEN "failed"
    ELSE IF c <= Len(Order) THEN "file"
    ELSE "merge"

\* main.py:498-499 and 513-522: no file gives the HTTP 400, a file that is
\* neither PDF nor image the HTTP 415, before any file is processed.
Classify ==
    /\ rpc = "request"
    /\ rpc' = IF files = <<>> THEN "rejected_400"
              ELSE IF \E i \in 1..Len(files) :
                          ~IsPdf(files[i]) /\ ~IsImage(files[i])
                   THEN "rejected_415"
              ELSE Stage(1)
    /\ cursor' = 1
    /\ UNCHANGED <<cleanVars, pdfVars, selVars, cfgVars, adVars, files,
                   batch_size, merge_output, upload_dir, outputs, results,
                   events, base_name, out_path>>

\* main.py:527-578 for a PDF, 592-634 for an image: the temporary copy and
\* the copy under the uploaded name are written, the file is processed and
\* its markdown saved under the stem of its name, the temporary copy is
\* removed, the result and the history record are appended.  The results of
\* an image get their batch title when there are several batches
\* (main.py:636-641); results and the batch_results that join it at the end
\* of the batch are one list here.  An exception of the processing leaves
\* the handler after the finally clause.
ProcessUpload ==
    /\ rpc = "file"
    /\ LET i == Order[cursor]
           path == SavePath(Stem(files[i]))
           titled == IsImage(files[i]) /\ NumImageBatches > 1
       IN  /\ upload_dir' = upload_dir \cup {files[i]}
           /\ base_name' = Stem(files[i])
           /\ \/ /\ outputs' = Write(outputs, path, MdText(i, FALSE))
                 /\ out_path' = path
                 /\ results' = Append(results,
                                      Result(i, path, MdText(i, titled)))
                 /\ LogHistory(i)
                 /\ cursor' = cursor + 1
                 /\ rpc' = Stage(cursor + 1)
              \/ /\ rpc' = "failed"
                 /\ UNCHANGED <<outputs, out_path, results, history_file,
                                cursor>>
    /\ UNCHANGED <<cleanVars, pdfVars, selVars, adVars, config_file, proc,
                   written, files, batch_size, merge_output, events>>

\* The name of the merged document: its prefix and a timestamp.
merged_filename == <<"merged", "_", "ts">>

\* main.py:645-699: with merge_output and a result, one merged document is
\* saved and becomes the only result; then the response (main.py:701).
MergeOutputs ==
    /\ rpc = "merge"
    /\ IF merge_output /\ results # <<>>
       THEN /\ base_name' = merged_filename
            /\ out_path' = SavePath(merged_filename)
            /\ outputs' = Write(outputs, SavePath(merged_filename), MergedText)
            /\ results' = <<Result(0, SavePath(merged_filename), MergedText)>>
       ELSE UNCHANGED <<base_name, out_path, outputs, results>>
    /\ rpc' = "done"
    /\ UNCHANGED <<cleanVars, pdfVars, selVars, cfgVars, adVars, files,
                   batch_size, merge_output, cursor, upload_dir, events>>

NextProcess == Classify \/ ProcessUpload \/ MergeOutputs

SpecProcess == InitProcess /\ [][NextProcess]_vars

\* The file an output reference designates: /outputs is served from
\* OUTPUT_DIR (main.py:907).
Designated(ref) == {f \in outputs : f.path = Append(OUTPUT_DIR, ref)}

\* C26: when a /api/process request completes, the output reference of
\* every returned result designates an artifact whose content is the text of
\* that result: no input's artifact is overwritten by that of another input
\* of the request.
C26_ResultOwnsArtifact ==
    rpc = "done" =>
        \A k \in 1..Len(results) :
            \E f \in Designated(results[k].output_markdown) :
                f.text = results[k].markdown

\* The same up to the batch title of an image result: the artifact is that
\* of the result's own input.
C26_NoOverwrite ==
    rpc = "done" =>
        \A k \in 1..Len(results) :
            \E f \in Designated(results[k].output_markdown) :
                f.text.input = results[k].markdown.input

-----------------------------------------------------------------------------
(* POST /api/process_stream: process_files_stream (main.py:796-887) *)

InitStream ==
    /\ AdIdle
    /\ CleanIdle
    /\ PdfIdle
    /\ SelIdle
    /\ CfgIdle
    /\ files \in Uploads(MaxFiles)
    /\ batch_size = 1
    /\ merge_output = FALSE
    /\ rpc = "stream_request"
    /\ cursor = 0
    /\ upload_dir = {}
    /\ outputs = {}
    /\ results = <<>>
    /\ events = <<>>
    /\ base_name = <<>>
    /\ out_path = <<>>

Event(type, i, rs) == [type |-> type, file |-> i, results |-> rs]

\* main.py:810-811, 824-826 and 887: no file gives the HTTP 400; otherwise
\* the response is the stream of the generator, which starts at the first
\* file.
OpenStream ==
    /\ rpc = "stream_request"
    /\ rpc' = IF files = <<>> THEN "rejected_400" ELSE "file_start"
    /\ cursor' = 1
    /\ UNCHANGED <<cleanVars, pdfVars, selVars, cfgVars, adVars, files,
                   batch_size, merge_output, upload_dir, outputs, results,
                   events, base_name, out_path>>

\* main.py:828: yield the file_start event of the file.
FileStart ==
    /\ rpc = "file_start"
    /\ events' = Append(events, Event("file_start", cursor, <<>>))
    /\ rpc' = "temp"
    /\ UNCHANGED <<cleanVars, pdfVars, selVars, cfgVars, adVars, files,
                   batch_size, merge_output, cursor, upload_dir, outputs,
                   results, base_name, out_path>>

\* main.py:830-839: the upload is read and written to its temporary copy.
WriteTemp ==
    /\ rpc = "temp"
    /\ upload_dir' = upload_dir \cup {TempName(cursor)}
    /\ base_name' = Stem(files[cursor])
    /\ rpc' = "process"
    /\ UNCHANGED <<cleanVars, pdfVars, selVars, cfgVars, adVars, files,
                   batch_size, merge_output, cursor, outputs, results,
                   events, out_path>>

\* main.py:845-867: an image or a PDF is processed, its markdown saved, its
\* result appended, the file_complete event yielded.
StreamFileDone ==
    /\ rpc = "process"
    /\ IsImage(files[cursor]) \/ IsPdf(files[cursor])
    /\ LET path == SavePath(base_name) IN
       /\ outputs' = Write(outputs, path, MdText(cursor, FALSE))
       /\ out_path' = path
       /\ results' = Append(results,
                            Result(cursor, path, MdText(cursor, FALSE)))
    /\ events' = Append(events, Event("file_complete", cursor, <<>>))
    /\ rpc' = "finally"
    /\ UNCHANGED <<cleanVars, pdfVars, selVars, cfgVars, adVars, files,
                   batch_size, merge_output, cursor, upload_dir, base_name>>

\* A generator without the except clause: the exception of a file ends the
\* stream, after the finally clause.
StreamFileFailsAborting ==
    /\ rpc = "process"
    /\ upload_dir' = upload_dir \ {TempName(cursor)}
    /\ rpc' = "done"
    /\ UNCHANGED <<cleanVars, pdfVars, selVars, cfgVars, adVars, files,
                   batch_size, merge_output, cursor, outputs, results,
                   events, base_name, out_path>>

\* main.py:845-859 raising, then 868-874: the exception of the processing,
\* or the HTTP 415 raised for a file that is neither image nor PDF, is
\* caught; an error entry is appended, the file_error event yielded.
StreamFileFails ==
    /\ rpc = "process"
    /\ results' = Append(results, ErrorResult(cursor))
    /\ events' = Append(events, Event("file_error", cursor, <<>>))
    /\ rpc' = "finally"
    /\ UNCHANGED <<cleanVars, pdfVars, selVars, cfgVars, adVars, files,
                   batch_size, merge_output, cursor, upload_dir, outputs,
                   base_name, out_path>>

\* main.py:875-879: the finally clause removes the temporary copy; then the
\* loop goes to the next file, or ends.
UnlinkTemp ==
    /\ rpc = "finally"
    /\ upload_dir' = upload_dir \ {TempName(cursor)}
    /\ IF cursor < Len(files)
       THEN cursor' = cursor + 1 /\ rpc' = "file_start"
       ELSE cursor' = cursor /\ rpc' = "complete"
    /\ UNCHANGED <<cleanVars, pdfVars, selVars, cfgVars, adVars, files,
                   batch_size, merge_output, outputs, results, events,
                   base_name, out_path>>

\* main.py:882: yield the complete event with the list of results.
CompleteStream ==
    /\ rpc = "complete"
    /\ events' = Append(events, Event("complete", 0, results))
    /\ rpc' = "done"
    /\ UNCHANGED <<cleanVars, pdfVars, selVars, cfgVars, adVars, files,
                   batch_size, merge_output, cursor, upload_dir, outputs,
                   results, base_name, out_path>>

NextStream ==
    \/ OpenStream
    \/ FileStart
    \/ WriteTemp
    \/ StreamFileFails
    \/ StreamFileDone
    \/ UnlinkTemp
    \/ CompleteStream

SpecStream == InitStream /\ [][NextStream]_vars

\* The response is read to its end: the server keeps iterating the
\* generator.
SpecStreamLive == SpecStream /\ WF_vars(NextStream)

\* The events of the files sent so far: for the file at position k, in
\* upload order, a file_start and then one file_complete or file_error; an
\* unsupported file gets a file_error.
FileEventsInOrder ==
    \A n \in 1..Len(events) :
        n <= 2 * Len(files) =>
            LET k == (n + 1) \div 2 IN
            /\ events[n].file = k
            /\ n % 2 = 1 => events[n].type = "file_start"
            /\ n % 2 = 0 =>
                  /\ events[n].type \in {"file_complete", "file_error"}
                  /\ (~IsImage(files[k]) /\ ~IsPdf(files[k]))
                        => events[n].type = "file_error"

\* The temporary copy of a file exists only between its file_start and the
\* file_start of the next file.
TempGoneBeforeNext ==
    \A k \in 1..Len(files) :
        TempName(k) \in upload_dir =>
            /\ Len(events) \in {2 * k - 1, 2 * k}
            /\ events[2 * k - 1] = Event("file_start", k, <<>>)

\* The stream ended: every file has its two events, then the one complete
\* event follows, with one result per file, in upload order.
EndsWithComplete ==
    rpc = "done" =>
        /\ Len(events) = 2 * Len(files) + 1
        /\ events[Len(events)].type = "complete"
        /\ LET rs == events[Len(events)].results IN
           /\ Len(rs) = Len(files)
           /\ \A k \in 1..Len(files) :
                 /\ rs[k].input = k
                 /\ rs[k].error <=> events[2 * k].type = "file_error"

C30_EventOrder ==
    /\ Len(events) <= 2 * Len(files) + 1
    /\ FileEventsInOrder
    /\ TempGoneBeforeNext
    /\ EndsWithComplete

====
